---- MODULE Spec2Model ----
(***************************************************************************)
(* Streaming orchestration layer of g-ai-chat: the chunk decoder, the     *)
(* process-wide client configuration, and the turn state machines of      *)
(* chatStream, smartChatStream, executeAgentStream and smartChat.         *)
(*                                                                         *)
(* Texts of the source that are not ASCII are written here as ASCII       *)
(* stand-ins; each stand-in names the source text it replaces.            *)
(***************************************************************************)
EXTENDS Naturals, Sequences, FiniteSets, TLC

VARIABLES
    currentConfig,   \* let currentConfig: OllamaConfig
    ollamaInstance,  \* let ollamaInstance: ChatOllama | null
    kind,            \* which orchestrator the current turn runs ("idle": none yet)
    pc,              \* the turn's position (its suspension point)
    content,         \* parameter content of the turn
    systemPrompt,    \* parameter systemPrompt of the turn ("" = not given)
    messages,        \* the local `messages` of the turn
    ollama,          \* the local `ollama` client of the turn
    chunks,          \* decoded events of the fragment in hand, not yet yielded
    fullText,        \* executeAgentStream's accumulator
    toolCalls,       \* fullResponse.tool_calls of smartChatStream
    toolResult,      \* local toolResult (Null when none)
    outcome,         \* how the turn stands: running, returned, thrown, abandoned
    ret,             \* the value the turn returned, or the error it threw
    nFragments,      \* fragments the stream delivered in this turn
    trace,           \* history of the turn: model calls, tool runs, yields
    cfgAtStart       \* history: currentConfig when the turn started

vars == <<currentConfig, ollamaInstance, kind, pc, content, systemPrompt, messages,
          ollama, chunks, fullText, toolCalls, toolResult, outcome, ret, nFragments,
          trace, cfgAtStart>>

\* ------------------------------------------------------------------ bounds
MaxFragments == 2
MaxToolCalls == 2
MaxParts == 2

\* ----------------------------------------------------------- configuration
\* OLLAMA_CONFIG is the imported default; the other is a user-saved one.
OLLAMA_CONFIG == [baseUrl |-> "http://localhost:11434", model |-> "default-model"]
SavedConfig == [baseUrl |-> "http://gpu-box:11434", model |-> "saved-model"]
Configs == {OLLAMA_CONFIG, SavedConfig}

NoInstance == [baseUrl |-> "", model |-> ""]

\* new ChatOllama({ baseUrl: cfg.baseUrl, model: cfg.model, ... })
ChatOllama(cfg) == [baseUrl |-> cfg.baseUrl, model |-> cfg.model]

\* getOllamaInstance(): the cached client, built from currentConfig when absent.
InstanceAfterGet == IF ollamaInstance = NoInstance THEN ChatOllama(currentConfig)
                    ELSE ollamaInstance

\* ---------------------------------------------------------------- messages
\* ASCII stand-ins of the prompts.
ChatDefaultPrompt == "You are an AI assistant"
SmartDefaultPrompt == "You are a smart assistant that may call getWeather or extractUserInfo"
AgentPrompt == "Extract the person record and return JSON"
ClassifierPrompt == "Answer WEATHER, EXTRACT_USER or NONE"
CityPrompt == "Return the city name only"
ExtractPrompt == "Extract the person record and return JSON only"

Messages(system, human) == [system |-> system, human |-> human]

\* systemPrompt || fallback
OrDefault(prompt, fallback) == IF prompt = "" THEN fallback ELSE prompt

\* ------------------------------------------------------------------- texts
\* Join(seq, sep): Array.prototype.join on a sequence of strings.
RECURSIVE Join(_, _)
Join(seq, sep) ==
    IF seq = <<>> THEN ""
    ELSE IF Len(seq) = 1 THEN seq[1]
    ELSE seq[1] \o sep \o Join(Tail(seq), sep)

\* Occurrences(s, pat): the positions (1-based) where pat occurs in s.
Occurrences(s, pat) ==
    {i \in 1..(Len(s) + 1 - Len(pat)) : SubSeq(s, i, i + Len(pat) - 1) = pat}

\* IndexOf(s, pat, from): least position >= from where pat occurs in s, 0 if none.
IndexOf(s, pat, from) ==
    LET hits == {i \in Occurrences(s, pat) : i >= from}
    IN IF hits = {} THEN 0 ELSE CHOOSE i \in hits : \A j \in hits : i <= j

\* LastIndexOf(s, pat, upto): greatest position <= upto where pat occurs in s, 0 if none.
LastIndexOf(s, pat, upto) ==
    LET hits == {i \in Occurrences(s, pat) : i <= upto}
    IN IF hits = {} THEN 0 ELSE CHOOSE i \in hits : \A j \in hits : i >= j

\* -------------------------------------------------------------------- JSON
\* JSON values, as JSON.parse returns them.
JUndefined == [j |-> "undefined"]
JNull == [j |-> "null"]
JNum(n) == [j |-> "number", n |-> n]
JStr(s) == [j |-> "string", s |-> s]
JArr(a) == [j |-> "array", a |-> a]
JObj(m) == [j |-> "object", m |-> m]

\* v[name] of JavaScript for a value that is not null or undefined.
Member(v, name) ==
    IF v.j = "object" /\ name \in DOMAIN v.m THEN v.m[name] ELSE JUndefined

\* JavaScript truthiness.
Truthy(v) ==
    CASE v.j = "undefined" -> FALSE
      [] v.j = "null" -> FALSE
      [] v.j = "string" -> v.s # ""
      [] v.j = "number" -> v.n # "0"
      [] OTHER -> TRUE

\* The text a truthy member contributes as an event's content.
TextOf(v) == IF v.j = "string" THEN v.s ELSE "[non-string]"

\* The texts the model exchanges.
PlainText == "hello"
UserNameOnlyText == "{\"name\":\"ZhangSan\"}"
\* An envelope whose content C is the text UserNameOnlyText, and one without thinking.
EnvelopeTC ==
    "{\"message\":{\"thinking\":\"T\",\"content\":\"{\\\"name\\\":\\\"ZhangSan\\\"}\"}}"
EnvelopeC == "{\"message\":{\"content\":\"C\"}}"
NoMessageText == "{\"done\":true}"
NumberText == "42"
NullText == "null"
StringText == "\"hi\""
UserFullText ==
    "{\"name\":\"ZhangSan\",\"age\":25,\"email\":\"zs@example.com\",\"phone\":\"13800138000\","
    \o "\"address\":{\"city\":\"Beijing\",\"district\":\"Chaoyang\",\"street\":\"Jianguo Rd 88\"},"
    \o "\"occupation\":\"engineer\",\"hobbies\":[\"coding\",\"reading\"]}"
UserNoHobbiesText ==
    "{\"name\":\"ZhangSan\",\"age\":25,\"email\":\"zs@example.com\",\"phone\":\"13800138000\","
    \o "\"address\":{\"city\":\"Beijing\",\"district\":\"Chaoyang\",\"street\":\"Jianguo Rd 88\"}}"
UserBadAgeText == "{\"name\":\"ZhangSan\",\"age\":\"twenty\"}"

AddressValue ==
    JObj([city |-> JStr("Beijing"), district |-> JStr("Chaoyang"),
          street |-> JStr("Jianguo Rd 88")])
UserNoHobbiesValue ==
    JObj([name |-> JStr("ZhangSan"), age |-> JNum("25"), email |-> JStr("zs@example.com"),
          phone |-> JStr("13800138000"), address |-> AddressValue])
UserFullValue ==
    JObj([name |-> JStr("ZhangSan"), age |-> JNum("25"), email |-> JStr("zs@example.com"),
          phone |-> JStr("13800138000"), address |-> AddressValue,
          occupation |-> JStr("engineer"),
          hobbies |-> JArr(<<JStr("coding"), JStr("reading")>>)])

Parsed(v) == [ok |-> TRUE, value |-> v]
SyntaxError == [ok |-> FALSE, value |-> JUndefined]

\* JSON.parse on the texts of this model: each valid text with its value, a
\* SyntaxError for every other text (none of the other texts the model can
\* build, by concatenation or by extraction, is valid JSON). White space
\* around the value is skipped, as the JSON grammar allows.
JSONParse(raw) ==
    LET Value(text) ==
            CASE text = EnvelopeTC ->
                   Parsed(JObj([message |-> JObj([thinking |-> JStr("T"),
                                                      content |-> JStr(UserNameOnlyText)])]))
              [] text = EnvelopeC -> Parsed(JObj([message |-> JObj([content |-> JStr("C")])]))
              [] text = NoMessageText -> Parsed(JObj([done |-> [j |-> "boolean"]]))
              [] text = NumberText -> Parsed(JNum("42"))
              [] text = NullText -> Parsed(JNull)
              [] text = "true" -> Parsed([j |-> "boolean"])
              [] text = StringText -> Parsed(JStr("hi"))
              [] text = UserFullText -> Parsed(UserFullValue)
              [] text = UserNoHobbiesText -> Parsed(UserNoHobbiesValue)
              [] text = UserNameOnlyText -> Parsed(JObj([name |-> JStr("ZhangSan")]))
              [] text = UserBadAgeText ->
                   Parsed(JObj([name |-> JStr("ZhangSan"), age |-> JStr("twenty")]))
              [] OTHER -> SyntaxError
        blank == {" ", "\n", "\t", "\r"}
        inked == {i \in 1..Len(raw) : SubSeq(raw, i, i) \notin blank}
        first == CHOOSE i \in inked : \A j \in inked : i <= j
        last == CHOOSE i \in inked : \A j \in inked : i >= j
    IN IF raw = "" THEN SyntaxError
       ELSE IF SubSeq(raw, 1, 1) \notin blank /\ SubSeq(raw, Len(raw), Len(raw)) \notin blank
       THEN Value(raw)
       ELSE IF inked = {} THEN SyntaxError
       ELSE Value(SubSeq(raw, first, last))

\* ----------------------------------------------------------- chunk decoder
\* A fragment's content: a string, an array of parts, or undefined.
StrContent(s) == [t |-> "string", s |-> s]
ArrContent(items) == [t |-> "array", items |-> items]
NoContent == [t |-> "undefined"]
\* An array item: a string, an object with a text member, or another object.
StrItem(s) == [t |-> "string", s |-> s]
TextItem(s) == [t |-> "text", s |-> s]
OtherItem == [t |-> "other"]
\* additional_kwargs: an object (reasoning_content "" when absent), or undefined.
Kwargs(reasoning) == [t |-> "object", reasoning_content |-> reasoning]
NoKwargs == [t |-> "undefined"]

Fragment(c, kw) == [content |-> c, additional_kwargs |-> kw]

RECURSIVE ItemTexts(_)
ItemTexts(items) ==
    IF items = <<>> THEN <<>>
    ELSE <<IF Head(items).t \in {"string", "text"} THEN Head(items).s ELSE "">>
         \o ItemTexts(Tail(items))

\* Variant of getContentAsString: String(content) without the || '' default.
getContentAsString_NoDefault(c) ==
    CASE c.t = "string" -> c.s
      [] c.t = "array" -> Join(ItemTexts(c.items), "")
      [] OTHER -> c.t

getContentAsString(c) ==
    CASE c.t = "string" -> c.s
      [] c.t = "array" -> Join(ItemTexts(c.items), "")
      [] OTHER -> ""

Thinking(text) == [type |-> "thinking", content |-> text]
Content(text) == [type |-> "content", content |-> text]

\* Variant of TryPayload: a parsed payload without a message is pushed as content.
TryPayload_TextFallback(chunkContent) ==
    LET parsed == JSONParse(chunkContent)
        message == Member(parsed.value, "message")
    IN IF ~parsed.ok THEN [error |-> "SyntaxError", events |-> <<>>]
       ELSE IF parsed.value.j = "null" THEN [error |-> "TypeError", events |-> <<>>]
       ELSE IF ~Truthy(message) THEN [error |-> "none", events |-> <<Content(chunkContent)>>]
       ELSE [error |-> "none",
             events |->
                 (IF Truthy(Member(message, "thinking"))
                  THEN <<Thinking(TextOf(Member(message, "thinking")))>> ELSE <<>>)
                 \o (IF Truthy(Member(message, "content"))
                     THEN <<Content(TextOf(Member(message, "content")))>> ELSE <<>>)]

\* The try block of parseStreamChunk on a non-empty chunkContent: the events it
\* pushes, or the error it raises before pushing any (JSON.parse a
\* SyntaxError, parsed.message of null a TypeError).
TryPayload(chunkContent) ==
    LET parsed == JSONParse(chunkContent)
        message == Member(parsed.value, "message")
    IN IF ~parsed.ok THEN [error |-> "SyntaxError", events |-> <<>>]
       ELSE IF parsed.value.j = "null" THEN [error |-> "TypeError", events |-> <<>>]
       ELSE IF ~Truthy(message) THEN [error |-> "none", events |-> <<>>]
       ELSE [error |-> "none",
             events |->
                 (IF Truthy(Member(message, "thinking"))
                  THEN <<Thinking(TextOf(Member(message, "thinking")))>> ELSE <<>>)
                 \o (IF Truthy(Member(message, "content"))
                     THEN <<Content(TextOf(Member(message, "content")))>> ELSE <<>>)]

\* Variant of Raised: the catch clause handles a SyntaxError only.
Raised_SyntaxErrorOnly(chunk) ==
    LET chunkContent == getContentAsString(chunk.content)
        caught == {"SyntaxError"}
    IN chunkContent # "" /\ TryPayload(chunkContent).error \notin caught \cup {"none"}

\* parseStreamChunk raises: an error of the try block that its catch clause
\* does not handle. catch (e) handles every error; outside the try block the
\* members of content and of additional_kwargs are read behind typeof and
\* truthiness guards only.
Raised(chunk) ==
    LET chunkContent == getContentAsString(chunk.content)
        caught == {"SyntaxError", "TypeError"}
    IN chunkContent # "" /\ TryPayload(chunkContent).error \notin caught \cup {"none"}

\* Variant of parseStreamChunk: the payload is decoded before the side channel.
parseStreamChunk_PayloadFirst(chunk) ==
    LET chunkContent == getContentAsString(chunk.content)
        kwargs == chunk.additional_kwargs
        fromKwargs ==
            IF kwargs.t = "object" /\ kwargs.reasoning_content # ""
            THEN <<Thinking(kwargs.reasoning_content)>> ELSE <<>>
        attempt == TryPayload(chunkContent)
        fromPayload ==
            IF chunkContent = "" THEN <<>>
            ELSE IF attempt.error # "none" THEN <<Content(chunkContent)>>
            ELSE attempt.events
    IN fromPayload \o fromKwargs

\* Variant of parseStreamChunk: the side channel's reasoning is not reported
\* when the payload carries thinking of its own.
parseStreamChunk_OneThinking(chunk) ==
    LET chunkContent == getContentAsString(chunk.content)
        kwargs == chunk.additional_kwargs
        fromKwargs ==
            IF kwargs.t = "object" /\ kwargs.reasoning_content # ""
            THEN <<Thinking(kwargs.reasoning_content)>> ELSE <<>>
        attempt == TryPayload(chunkContent)
        fromPayload ==
            IF chunkContent = "" THEN <<>>
            ELSE IF attempt.error # "none" THEN <<Content(chunkContent)>>
            ELSE attempt.events
    IN IF fromPayload # <<>> /\ fromPayload[1].type = "thinking" THEN fromPayload
       ELSE fromKwargs \o fromPayload

\* Variant of parseStreamChunk: the catch block pushes nothing.
parseStreamChunk_SilentCatch(chunk) ==
    LET chunkContent == getContentAsString(chunk.content)
        kwargs == chunk.additional_kwargs
        fromKwargs ==
            IF kwargs.t = "object" /\ kwargs.reasoning_content # ""
            THEN <<Thinking(kwargs.reasoning_content)>> ELSE <<>>
        attempt == TryPayload(chunkContent)
        fromPayload ==
            IF chunkContent = "" THEN <<>>
            ELSE IF attempt.error # "none" THEN <<>>
            ELSE attempt.events
    IN fromKwargs \o fromPayload

parseStreamChunk(chunk) ==
    LET chunkContent == getContentAsString(chunk.content)
        kwargs == chunk.additional_kwargs
        fromKwargs ==
            IF kwargs.t = "object" /\ kwargs.reasoning_content # ""
            THEN <<Thinking(kwargs.reasoning_content)>> ELSE <<>>
        attempt == TryPayload(chunkContent)
        fromPayload ==
            IF chunkContent = "" THEN <<>>
            \* a SyntaxError or a TypeError is caught: the text is the content
            ELSE IF attempt.error # "none" THEN <<Content(chunkContent)>>
            ELSE attempt.events
    IN fromKwargs \o fromPayload


\* --------------------------------------------------- structured extraction
\* The code fence of markdown (three backquotes), written ~~~ here.
Fence == "~~~"

\* Variant of ExtractJson: the brace span is tried before the fence.
ExtractJson_BracesFirst(text) ==
    LET open == IndexOf(text, "{", 1)
        shut == LastIndexOf(text, "}", Len(text))
    IN IF open > 0 /\ shut > open THEN SubSeq(text, open, shut) ELSE text

\* responseText.match(/<fence>json\n?([\s\S]*?)<fence>/) || responseText.match(/\{[\s\S]*\}/),
\* then jsonMatch[1] || jsonMatch[0], the whole text when nothing matches.
ExtractJson(text) ==
    LET fenceJson == Fence \o "json"
        fence == IndexOf(text, fenceJson, 1)
        afterTag == fence + Len(fenceJson)
        bodyStart == IF afterTag <= Len(text) /\ SubSeq(text, afterTag, afterTag) = "\n"
                     THEN afterTag + 1 ELSE afterTag
        close == IF fence = 0 THEN 0 ELSE IndexOf(text, Fence, bodyStart)
        open == IndexOf(text, "{", 1)
        shut == LastIndexOf(text, "}", Len(text))
    IN IF close > 0
       THEN IF close > bodyStart THEN SubSeq(text, bodyStart, close - 1)
            ELSE SubSeq(text, fence, close + Len(Fence) - 1)
       ELSE IF open > 0 /\ shut > open THEN SubSeq(text, open, shut)
       ELSE text

\* UserSchema: every field may be absent; a field that is present must have
\* its type (age a number, hobbies an array of strings, address an object of
\* strings, the others strings). Unknown keys are dropped.
UserFields == {"name", "age", "email", "phone", "address", "occupation", "hobbies"}
AddressFields == {"city", "district", "street"}

FieldValid(f, v) ==
    CASE f = "age" -> v.j = "number"
      [] f = "hobbies" -> v.j = "array" /\ \A i \in 1..Len(v.a) : v.a[i].j = "string"
      [] f = "address" ->
           v.j = "object" /\ \A g \in DOMAIN v.m \cap AddressFields : v.m[g].j = "string"
      [] OTHER -> v.j = "string"

FieldOut(f, v) ==
    CASE f = "age" -> v.n
      [] f = "hobbies" -> [i \in 1..Len(v.a) |-> v.a[i].s]
      [] f = "address" -> [g \in DOMAIN v.m \cap AddressFields |-> v.m[g].s]
      [] OTHER -> v.s

\* null, and the test for it (a value of the program never has a member "none").
Null == [none |-> TRUE]
IsNull(v) == DOMAIN v = {"none"}

\* UserSchema.parse(userData): the validated user, or Null when it throws.
UserSchemaParse(userData) ==
    IF userData.j # "object" THEN Null
    ELSE IF \E f \in DOMAIN userData.m \cap UserFields : ~FieldValid(f, userData.m[f])
         THEN Null
    ELSE [f \in DOMAIN userData.m \cap UserFields |-> FieldOut(f, userData.m[f])]

\* The body of extractUserInfo and the tail of executeAgentStream after the
\* model text is in hand: extract, JSON.parse, UserSchema.parse; Null when
\* any of them throws.
ParseUser(text) ==
    LET userData == JSONParse(ExtractJson(text))
    IN IF ~userData.ok THEN Null ELSE UserSchemaParse(userData.value)

\* A reply of the model to invoke: a text, or the call failing.
InvokeFailed == [failed |-> TRUE, text |-> ""]
Reply(text) == [failed |-> FALSE, text |-> text]

\* extractUserInfo(options): null on every failure, the call's included.
extractUserInfo(reply) == IF reply.failed THEN Null ELSE ParseUser(reply.text)


\* ------------------------------------------------------------ weather tool
Digits == {"0", "1", "2", "3", "4", "5", "6", "7", "8", "9"}

\* /^\d+$/.test(location)
IsAllDigits(text) ==
    Len(text) > 0 /\ \A i \in 1..Len(text) : SubSeq(text, i, i) \in Digits

\* Length of the longest prefix of text[from..] that parseFloat reads: digits
\* with at most one point (sign, exponent and blanks do not occur in the model).
RECURSIVE NumberPrefix(_, _, _)
NumberPrefix(text, from, seenPoint) ==
    IF from > Len(text) THEN 0
    ELSE LET ch == SubSeq(text, from, from)
         IN IF ch \in Digits THEN 1 + NumberPrefix(text, from + 1, seenPoint)
            ELSE IF ch = "." /\ ~seenPoint /\ from < Len(text)
                    /\ SubSeq(text, from + 1, from + 1) \in Digits
                 THEN 1 + NumberPrefix(text, from + 1, TRUE)
            ELSE 0

\* parseFloat(text): the number read (as its text), "NaN" when no digit leads.
parseFloat(text) ==
    LET n == NumberPrefix(text, 1, FALSE)
    IN IF n = 0 THEN "NaN" ELSE SubSeq(text, 1, n)

\* What fetch + response.json() give: the request failing (network), a status
\* that is not ok, or a body.
GeoNetFail == [net |-> FALSE, ok |-> FALSE, code |-> "", location |-> <<>>]
GeoHttpError == [net |-> TRUE, ok |-> FALSE, code |-> "", location |-> <<>>]
GeoNoMatch == [net |-> TRUE, ok |-> TRUE, code |-> "404", location |-> <<>>]
GeoMatch(adm2, adm1) ==
    [net |-> TRUE, ok |-> TRUE, code |-> "200",
     location |-> <<[name |-> "Beijing", id |-> "101010100", lat |-> "39.90499",
                     lon |-> "116.40529", adm2 |-> adm2, adm1 |-> adm1,
                     country |-> "China"]>>]
GeoResponses == {GeoNetFail, GeoHttpError, GeoNoMatch,
                 GeoMatch("Beijing", "Beijing City"), GeoMatch("", "")}

NowBody(temp) ==
    [obsTime |-> "2026-01-01T08:00+08:00", temp |-> temp, feelsLike |-> "23",
     text |-> "Sunny", windDir |-> "NE", windScale |-> "3", windSpeed |-> "15",
     humidity |-> "40", precip |-> "0.0", pressure |-> "1012", vis |-> "16"]
WxNetFail == [net |-> FALSE, ok |-> FALSE, code |-> "", hasNow |-> FALSE,
              now |-> NowBody(""), fxLink |-> ""]
WxHttpError == [net |-> TRUE, ok |-> FALSE, code |-> "", hasNow |-> FALSE,
                now |-> NowBody(""), fxLink |-> ""]
WxBadCode == [net |-> TRUE, ok |-> TRUE, code |-> "204", hasNow |-> FALSE,
              now |-> NowBody(""), fxLink |-> ""]
WxNoBody == [net |-> TRUE, ok |-> TRUE, code |-> "200", hasNow |-> FALSE,
             now |-> NowBody(""), fxLink |-> ""]
WxOk(temp) == [net |-> TRUE, ok |-> TRUE, code |-> "200", hasNow |-> TRUE,
               now |-> NowBody(temp), fxLink |-> "https://www.qweather.com/beijing"]
WxResponses == {WxNetFail, WxHttpError, WxBadCode, WxNoBody, WxOk("25"), WxOk("n/a")}

\* getCityInfo(cityName): the first match, null otherwise or on a throw.
getCityInfo(geo) ==
    IF ~geo.net \/ ~geo.ok THEN Null
    ELSE IF geo.code = "200" /\ Len(geo.location) > 0
         THEN LET location == geo.location[1]
              IN [name |-> location.name, id |-> location.id,
                  lat |-> parseFloat(location.lat), lon |-> parseFloat(location.lon),
                  adm1 |-> location.adm1, adm2 |-> location.adm2,
                  country |-> location.country]
    ELSE Null

\* Variant of WeatherRequests: the conditions request does not wait for a city.
WeatherRequests_NoCityCheck(location, geo) ==
    IF IsAllDigits(location) THEN <<>>
    ELSE <<"geo/v2/city/lookup", "v7/weather/now">>

\* Variant of WeatherRequests: a lookup that gives no city is issued again.
WeatherRequests_RetryLookup(location, geo) ==
    IF IsAllDigits(location) THEN <<>>
    ELSE IF IsNull(getCityInfo(geo)) THEN <<"geo/v2/city/lookup", "geo/v2/city/lookup">>
    ELSE <<"geo/v2/city/lookup", "v7/weather/now">>

\* The requests getWeatherByCity issues, in order.
WeatherRequests(location, geo) ==
    IF IsAllDigits(location) THEN <<>>
    ELSE IF IsNull(getCityInfo(geo)) THEN <<"geo/v2/city/lookup">>
    ELSE <<"geo/v2/city/lookup", "v7/weather/now">>

\* Variant of getWeatherByCity: a text of digits is looked up like a name.
getWeatherByCity_AcceptsId(location, geo, wx) ==
    LET cityInfo == getCityInfo(geo)
    IN IF IsNull(cityInfo) THEN Null
       ELSE IF ~wx.net \/ ~wx.ok \/ wx.code # "200" \/ ~wx.hasNow THEN Null
       ELSE [location |-> cityInfo,
             now |-> [temp |-> parseFloat(wx.now.temp),
                      feelsLike |-> parseFloat(wx.now.feelsLike),
                      text |-> wx.now.text, windDir |-> wx.now.windDir,
                      windScale |-> wx.now.windScale,
                      windSpeed |-> parseFloat(wx.now.windSpeed),
                      humidity |-> parseFloat(wx.now.humidity),
                      precip |-> parseFloat(wx.now.precip),
                      pressure |-> parseFloat(wx.now.pressure),
                      vis |-> parseFloat(wx.now.vis),
                      obsTime |-> wx.now.obsTime, fxLink |-> wx.fxLink]]

\* Variant of getWeatherByCity: the code of the conditions body is not tested.
getWeatherByCity_IgnoresCode(location, geo, wx) ==
    LET cityInfo == getCityInfo(geo)
    IN IF IsAllDigits(location) THEN Null
       ELSE IF IsNull(cityInfo) THEN Null
       ELSE IF ~wx.net \/ ~wx.ok \/ ~wx.hasNow THEN Null
       ELSE [location |-> cityInfo,
             now |-> [temp |-> parseFloat(wx.now.temp),
                      feelsLike |-> parseFloat(wx.now.feelsLike),
                      text |-> wx.now.text, windDir |-> wx.now.windDir,
                      windScale |-> wx.now.windScale,
                      windSpeed |-> parseFloat(wx.now.windSpeed),
                      humidity |-> parseFloat(wx.now.humidity),
                      precip |-> parseFloat(wx.now.precip),
                      pressure |-> parseFloat(wx.now.pressure),
                      vis |-> parseFloat(wx.now.vis),
                      obsTime |-> wx.now.obsTime, fxLink |-> wx.fxLink]]

\* getWeatherByCity(options): the record, null on every failure.
getWeatherByCity(location, geo, wx) ==
    LET cityInfo == getCityInfo(geo)
    IN IF IsAllDigits(location) THEN Null
       ELSE IF IsNull(cityInfo) THEN Null
       ELSE IF ~wx.net \/ ~wx.ok \/ wx.code # "200" \/ ~wx.hasNow THEN Null
       ELSE [location |-> cityInfo,
             now |-> [temp |-> parseFloat(wx.now.temp),
                      feelsLike |-> parseFloat(wx.now.feelsLike),
                      text |-> wx.now.text, windDir |-> wx.now.windDir,
                      windScale |-> wx.now.windScale,
                      windSpeed |-> parseFloat(wx.now.windSpeed),
                      humidity |-> parseFloat(wx.now.humidity),
                      precip |-> parseFloat(wx.now.precip),
                      pressure |-> parseFloat(wx.now.pressure),
                      vis |-> parseFloat(wx.now.vis),
                      obsTime |-> wx.now.obsTime, fxLink |-> wx.fxLink]]

\* ------------------------------------------------------- tool call results
WeatherFailedError == "weather query failed, check the city name"
ExtractFailedError == "user info extraction failed, give more detail"
ToolCallFailedText == "tool call failed"

\* Variant of Failed: the failed result carries a null result member as well.
Failed_WithResult(toolName, error) ==
    [toolName |-> toolName, success |-> FALSE, error |-> error, result |-> Null]

Succeeded(toolName, result) == [toolName |-> toolName, success |-> TRUE, result |-> result]
Failed(toolName, error) == [toolName |-> toolName, success |-> FALSE, error |-> error]

WeatherResult(weatherData) ==
    IF ~IsNull(weatherData) THEN Succeeded("getWeather", weatherData)
    ELSE Failed("getWeather", WeatherFailedError)

ExtractResult(userInfo) ==
    IF ~IsNull(userInfo) THEN Succeeded("extractUserInfo", userInfo)
    ELSE Failed("extractUserInfo", ExtractFailedError)


\* ---------------------------------------------------------------- formatter
\* ${user.f} in a template literal: the member, "undefined" when absent.
Shown(record, f) == IF f \in DOMAIN record THEN record[f] ELSE "undefined"

\* formattedContent.substring(formattedContent.indexOf('\n') + 1)
AfterFirstLine(text) ==
    LET nl == IndexOf(text, "\n", 1)
    IN IF nl = 0 THEN text ELSE SubSeq(text, nl + 1, Len(text))

\* [adm2, adm1].filter(Boolean)
NonEmpty(seq) == SelectSeq(seq, LAMBDA x : x # "")

FormatWeather(weather) ==
    LET plain ==
            "[weather] " \o weather.location.name \o " weather:\n"
            \o "temp: " \o weather.now.temp \o "C (feels " \o weather.now.feelsLike \o "C)\n"
            \o "text: " \o weather.now.text \o "\n"
            \o "humidity: " \o weather.now.humidity \o "%\n"
            \o "windDir: " \o weather.now.windDir \o "\n"
            \o "windScale: " \o weather.now.windScale \o "\n"
            \o "pressure: " \o weather.now.pressure \o "hPa\n"
            \o "vis: " \o weather.now.vis \o "km\n"
            \o "precip: " \o weather.now.precip \o "mm\n"
            \o "obsTime: " \o weather.now.obsTime
        region == Join(NonEmpty(<<weather.location.adm2, weather.location.adm1>>), ", ")
    IN IF weather.location.adm2 # "" \/ weather.location.adm1 # ""
       THEN "[weather] " \o weather.location.name \o " (" \o region \o ") weather:\n"
            \o AfterFirstLine(plain)
       ELSE plain

\* The user template raises a TypeError where it reads a member of an absent
\* member: user.address.city and user.hobbies.join.
FormatUserThrows(user) == "address" \notin DOMAIN user \/ "hobbies" \notin DOMAIN user

FormatUser(user) ==
    "[user] user info:\n"
    \o "name: " \o Shown(user, "name") \o "\n"
    \o "age: " \o Shown(user, "age") \o " years\n"
    \o "email: " \o Shown(user, "email") \o "\n"
    \o "phone: " \o Shown(user, "phone") \o "\n"
    \o "address: " \o Shown(user.address, "city") \o " " \o Shown(user.address, "district")
    \o " " \o Shown(user.address, "street")
    \o (IF "occupation" \in DOMAIN user /\ user.occupation # ""
        THEN "\noccupation: " \o user.occupation ELSE "")
    \o "\n" \o "hobbies: " \o Join(user.hobbies, ", ")

\* The formatting block of smartChatStream and of smartChat, the same text in
\* both: the content to show, or the TypeError it raises.
Formatted(text) == [threw |-> FALSE, text |-> text]
FormatThrew == [threw |-> TRUE, text |-> ""]

\* Variant of FormatToolResult: a failed result is shown as the generic text.
FormatToolResult_GenericFailure(result) ==
    IF result.success
    THEN IF result.toolName = "getWeather" THEN Formatted(FormatWeather(result.result))
         ELSE IF FormatUserThrows(result.result) THEN FormatThrew
         ELSE Formatted(FormatUser(result.result))
    ELSE Formatted(ToolCallFailedText)

\* Variant of FormatToolResult: the text also carries the turn's system prompt.
FormatToolResult_WithPrompt(result) ==
    IF result.success
    THEN IF result.toolName = "getWeather"
         THEN Formatted(FormatWeather(result.result) \o systemPrompt)
         ELSE IF FormatUserThrows(result.result) THEN FormatThrew
         ELSE Formatted(FormatUser(result.result) \o systemPrompt)
    ELSE Formatted((IF result.error # "" THEN result.error ELSE ToolCallFailedText)
                   \o systemPrompt)

FormatToolResult(result) ==
    IF result.success
    THEN IF result.toolName = "getWeather" THEN Formatted(FormatWeather(result.result))
         ELSE IF FormatUserThrows(result.result) THEN FormatThrew
         ELSE Formatted(FormatUser(result.result))
    ELSE Formatted(IF result.error # "" THEN result.error ELSE ToolCallFailedText)


\* ------------------------------------------------------------------ inputs
\* What the caller passes: the user's text, and a system prompt or none ("").
Inputs == {[content |-> "What is the weather in Beijing", systemPrompt |-> ""],
           [content |-> "hello", systemPrompt |-> "Answer briefly"]}

\* Fragments the stream capability delivers: plain text, a reasoning side
\* channel with an envelope (three events), and an empty fragment (no event).
StreamFragments ==
    {Fragment(StrContent(PlainText), NoKwargs),
     Fragment(StrContent(EnvelopeTC), Kwargs("R")),
     Fragment(StrContent(""), Kwargs(""))}

\* ------------------------------------------------------------ turn history
StreamCall(client, msgs) == [k |-> "stream", client |-> client, messages |-> msgs]
InvokeCall(by, client, msgs) ==
    [k |-> "invoke", by |-> by, client |-> client, messages |-> msgs]
Arrived(fragment) == [k |-> "fragment", fragment |-> fragment]
Drained == [k |-> "drained"]
TransportFailed == [k |-> "transportFailed"]
Yield(chunk) == [k |-> "yield", chunk |-> chunk]
ToolStart(toolName) == [k |-> "toolStart", toolName |-> toolName]
ToolEnd(toolName) == [k |-> "toolEnd", toolName |-> toolName]
Request(url) == [k |-> "request", url |-> url]

\* The events the consumer has received, in order.
Events == SelectSeq(trace, LAMBDA e : e.k = "yield")

\* ------------------------------------------------------------ return values
Undefined == [undefined |-> TRUE]
StreamFailedError == "stream response failed"
ToolErrorText == "tool call raised an error"
AgentSuccessText == "user info extracted"
AgentFailedText == "user info extraction failed"

\* ------------------------------------------------------------------- state
Init ==
    /\ currentConfig = OLLAMA_CONFIG
    /\ ollamaInstance = NoInstance
    /\ kind = "idle"
    /\ pc = "done"
    /\ content = ""
    /\ systemPrompt = ""
    /\ messages = Messages("", "")
    /\ ollama = NoInstance
    /\ chunks = <<>>
    /\ fullText = ""
    /\ toolCalls = <<>>
    /\ toolResult = Null
    /\ outcome = "none"
    /\ ret = Undefined
    /\ nFragments = 0
    /\ trace = <<>>
    /\ cfgAtStart = OLLAMA_CONFIG

configVars == <<currentConfig, ollamaInstance>>
paramVars == <<kind, content, systemPrompt, messages, ollama, cfgAtStart>>

\* Variant of updateOllamaConfig: the cached client is kept.
updateOllamaConfig_KeepInstance(config) ==
    /\ currentConfig' = config
    /\ UNCHANGED <<ollamaInstance, paramVars, pc, chunks, fullText, toolCalls, toolResult,
                   outcome, ret, nFragments, trace>>

\* updateOllamaConfig(config)
updateOllamaConfig(config) ==
    /\ currentConfig' = config
    /\ ollamaInstance' = NoInstance
    /\ UNCHANGED <<paramVars, pc, chunks, fullText, toolCalls, toolResult, outcome, ret,
                   nFragments, trace>>

\* A turn starts when none is running: the locals of the new turn.
StartTurn(k, c, sp, msgs, client, firstCall) ==
    /\ outcome # "running"
    /\ kind' = k
    /\ content' = c
    /\ systemPrompt' = sp
    /\ messages' = msgs
    /\ ollama' = client
    /\ chunks' = <<>>
    /\ fullText' = ""
    /\ toolCalls' = <<>>
    /\ toolResult' = Null
    /\ outcome' = "running"
    /\ ret' = Undefined
    /\ nFragments' = 0
    /\ trace' = <<firstCall>>
    /\ cfgAtStart' = currentConfig
    /\ UNCHANGED currentConfig

\* The turn ends: it returned value, or threw it.
Finish(how, value, history) ==
    /\ outcome' = how
    /\ ret' = value
    /\ pc' = "done"
    /\ trace' = history

\* An exception raised inside the try block of the running orchestrator:
\* chatStream rethrows, smartChatStream yields a content event and will
\* return {}, executeAgentStream returns its failure value.
Raise(history) ==
    CASE kind = "chatStream" -> Finish("thrown", [error |-> StreamFailedError], history)
      [] kind = "smartChatStream" ->
           /\ trace' = Append(history, Yield(Content(ToolErrorText)))
           /\ pc' = "atCatchYield"
           /\ UNCHANGED <<outcome, ret>>
      [] kind = "executeAgentStream" ->
           Finish("returned", [result |-> Null, content |-> AgentFailedText], history)


\* chatStream(content, systemPrompt), up to the stream call.
chatStream_Start(c, sp) ==
    LET msgs == Messages(OrDefault(sp, ChatDefaultPrompt), c)
    IN /\ StartTurn("chatStream", c, sp, msgs, InstanceAfterGet,
                    StreamCall(InstanceAfterGet, msgs))
       /\ ollamaInstance' = InstanceAfterGet
       /\ pc' = "awaitStream"

\* await ollama.stream(messages) rejects.
StreamRejects ==
    /\ outcome = "running" /\ pc = "awaitStream"
    /\ Raise(Append(trace, TransportFailed))
    /\ UNCHANGED <<configVars, paramVars, chunks, fullText, toolCalls, toolResult, nFragments>>

\* await ollama.stream(messages) resolves.
StreamOpens ==
    /\ outcome = "running" /\ pc = "awaitStream"
    /\ pc' = "iterate"
    /\ UNCHANGED <<configVars, paramVars, chunks, fullText, toolCalls, toolResult, outcome,
                   ret, nFragments, trace>>

\* for await: the next fragment arrives and is decoded; its first event, if
\* any, is yielded.
NextFragment(fragment) ==
    LET decoded == parseStreamChunk(fragment)
    IN /\ outcome = "running" /\ pc = "iterate"
       /\ kind \in {"chatStream", "smartChatStream", "executeAgentStream"}
       /\ nFragments < MaxFragments
       /\ nFragments' = nFragments + 1
       /\ IF decoded = <<>>
          THEN /\ trace' = Append(trace, Arrived(fragment))
               /\ chunks' = <<>>
               /\ pc' = "iterate"
          ELSE /\ trace' = trace \o <<Arrived(fragment), Yield(Head(decoded))>>
               /\ chunks' = Tail(decoded)
               /\ pc' = "atYield"
       /\ UNCHANGED <<configVars, paramVars, fullText, toolCalls, toolResult, outcome, ret>>

\* Variant of NextChunk: only the content events are accumulated in fullText.
NextChunk_ContentOnly ==
    /\ outcome = "running" /\ pc = "atYield"
    /\ fullText' = IF kind = "executeAgentStream"
                      /\ trace[Len(trace)].chunk.type = "content"
                   THEN fullText \o trace[Len(trace)].chunk.content ELSE fullText
    /\ IF chunks = <<>>
       THEN /\ pc' = "iterate"
            /\ UNCHANGED <<chunks, trace>>
       ELSE /\ trace' = Append(trace, Yield(Head(chunks)))
            /\ chunks' = Tail(chunks)
            /\ pc' = "atYield"
    /\ UNCHANGED <<configVars, paramVars, toolCalls, toolResult, outcome, ret, nFragments>>

\* Variant of NextChunk: of the events left of a fragment only the next one
\* is yielded, the others are dropped.
NextChunk_DropsRest ==
    /\ outcome = "running" /\ pc = "atYield"
    /\ fullText' = IF kind = "executeAgentStream"
                   THEN fullText \o trace[Len(trace)].chunk.content ELSE fullText
    /\ IF chunks = <<>>
       THEN /\ pc' = "iterate"
            /\ UNCHANGED <<chunks, trace>>
       ELSE /\ trace' = Append(trace, Yield(Head(chunks)))
            /\ chunks' = <<>>
            /\ pc' = "atYield"
    /\ UNCHANGED <<configVars, paramVars, toolCalls, toolResult, outcome, ret, nFragments>>

\* The consumer pulls again after an event of the stream: executeAgentStream
\* adds the event's content to fullText; the next event of the fragment is
\* yielded, or the loop awaits the next fragment.
NextChunk ==
    /\ outcome = "running" /\ pc = "atYield"
    /\ fullText' = IF kind = "executeAgentStream"
                   THEN fullText \o trace[Len(trace)].chunk.content ELSE fullText
    /\ IF chunks = <<>>
       THEN /\ pc' = "iterate"
            /\ UNCHANGED <<chunks, trace>>
       ELSE /\ trace' = Append(trace, Yield(Head(chunks)))
            /\ chunks' = Tail(chunks)
            /\ pc' = "atYield"
    /\ UNCHANGED <<configVars, paramVars, toolCalls, toolResult, outcome, ret, nFragments>>

\* for await: the iteration raises.
IterationRaises ==
    /\ outcome = "running" /\ pc = "iterate"
    /\ kind \in {"chatStream", "smartChatStream", "executeAgentStream"}
    /\ Raise(Append(trace, TransportFailed))
    /\ UNCHANGED <<configVars, paramVars, chunks, fullText, toolCalls, toolResult, nFragments>>

\* chatStream: the stream is exhausted, the generator completes.
chatStream_Done ==
    /\ outcome = "running" /\ pc = "iterate"
    /\ kind = "chatStream"
    /\ Finish("returned", Undefined, Append(trace, Drained))
    /\ UNCHANGED <<configVars, paramVars, chunks, fullText, toolCalls, toolResult, nFragments>>

\* --------------------------------------------------------- smartChatStream
WeatherCall == [name |-> "getWeather", args |-> [location |-> "Beijing"]]
ExtractCall == [name |-> "extractUserInfo", args |-> [content |-> "I am ZhangSan, 25"]]
UnknownCall == [name |-> "searchWeb", args |-> [query |-> "Beijing"]]
ToolCallValues == {WeatherCall, ExtractCall, UnknownCall}
\* fullResponse.tool_calls: absent or empty (<<>>), or up to MaxToolCalls calls.
ToolCallLists == UNION {[1..n -> ToolCallValues] : n \in 0..MaxToolCalls}

\* Replies of the nested model call of extractUserInfo.
ExtractReplies ==
    {InvokeFailed, Reply(UserFullText),
     Reply(Fence \o "json\n" \o UserNoHobbiesText \o "\n" \o Fence),
     Reply("Here it is: " \o UserNameOnlyText), Reply(UserBadAgeText),
     Reply("no person is described")}

WeatherMarker == "\n\n[search] querying the weather...\n"
ExtractMarker == "\n\n[search] extracting the user info...\n"
EmptyObject == [empty |-> TRUE]

ToolCallEvent(result) == [type |-> "tool_call", content |-> "", toolCall |-> result]

\* The loop over fullResponse.tool_calls: the index of the call it acts on,
\* the first whose name is one of the two tools; 0 when there is none.
RECURSIVE FirstRecognized(_, _)
FirstRecognized(calls, i) ==
    IF i > Len(calls) THEN 0
    ELSE IF calls[i].name \in {"getWeather", "extractUserInfo"} THEN i
    ELSE FirstRecognized(calls, i + 1)

\* Variant of HonoredIndex: the last call naming one of the two tools.
HonoredIndex_Last(calls) ==
    LET hits == {i \in 1..Len(calls) : calls[i].name \in {"getWeather", "extractUserInfo"}}
    IN IF hits = {} THEN 0 ELSE CHOOSE i \in hits : \A j \in hits : i >= j

HonoredIndex(calls) == FirstRecognized(calls, 1)
Honored == toolCalls[HonoredIndex(toolCalls)]

\* smartChatStream(content, systemPrompt), up to the stream call.
smartChatStream_Start(c, sp) ==
    LET msgs == Messages(OrDefault(sp, SmartDefaultPrompt), c)
    IN /\ StartTurn("smartChatStream", c, sp, msgs, ChatOllama(currentConfig),
                    StreamCall(ChatOllama(currentConfig), msgs))
       /\ UNCHANGED ollamaInstance
       /\ pc' = "awaitStream"

\* Variant of ToolDetectionCall: the message list is rebuilt with the default
\* system prompt instead of reusing `messages`.
ToolDetectionCall_Rebuilt ==
    InvokeCall("tools", ollama, Messages(SmartDefaultPrompt, content))

\* ollamaWithTools.invoke(messages)
ToolDetectionCall == InvokeCall("tools", ollama, messages)

\* The stream is exhausted: the tool-detection request is issued.
smartChatStream_Invoke ==
    /\ outcome = "running" /\ pc = "iterate"
    /\ kind = "smartChatStream"
    /\ trace' = trace \o <<Drained, ToolDetectionCall>>
    /\ pc' = "awaitInvoke"
    /\ UNCHANGED <<configVars, paramVars, chunks, fullText, toolCalls, toolResult, outcome,
                   ret, nFragments>>

\* await ollamaWithTools.invoke(messages) rejects.
InvokeRejects ==
    /\ outcome = "running" /\ pc = "awaitInvoke"
    /\ Raise(trace)
    /\ UNCHANGED <<configVars, paramVars, chunks, fullText, toolCalls, toolResult, nFragments>>

\* The response arrives: with no call to act on the generator returns {},
\* otherwise it yields the marker of the honored call.
InvokeReturns(calls) ==
    /\ outcome = "running" /\ pc = "awaitInvoke"
    /\ toolCalls' = calls
    /\ IF HonoredIndex(calls) = 0
       THEN Finish("returned", EmptyObject, trace)
       ELSE /\ trace' = Append(trace, Yield(Content(
                   IF calls[HonoredIndex(calls)].name = "getWeather"
                   THEN WeatherMarker ELSE ExtractMarker)))
            /\ pc' = "atMarker"
            /\ UNCHANGED <<outcome, ret>>
    /\ UNCHANGED <<configVars, paramVars, chunks, fullText, toolResult, nFragments>>

RequestEntries(urls) == [i \in 1..Len(urls) |-> Request(urls[i])]

\* Variant of ToolRun: the tool_call event is yielded before the tool runs.
ToolRun_EventFirst(toolName, inner, result) ==
    <<Yield(ToolCallEvent(result)), ToolStart(toolName)>> \o inner \o <<ToolEnd(toolName)>>

\* The history of running a tool and then yielding its tool_call event.
ToolRun(toolName, inner, result) ==
    <<ToolStart(toolName)>> \o inner \o <<ToolEnd(toolName), Yield(ToolCallEvent(result))>>

\* The consumer pulls after the weather marker: getWeatherByCity runs, the
\* result is built and its tool_call event is yielded.
ExecWeather(geo, wx) ==
    LET location == Honored.args.location
        result == WeatherResult(getWeatherByCity(location, geo, wx))
    IN /\ outcome = "running" /\ pc = "atMarker"
       /\ Honored.name = "getWeather"
       /\ toolResult' = result
       /\ trace' = trace \o ToolRun("getWeather",
                                    RequestEntries(WeatherRequests(location, geo)), result)
       /\ pc' = "atToolCall"
       /\ UNCHANGED <<configVars, paramVars, chunks, fullText, toolCalls, outcome, ret,
                      nFragments>>

\* The nested model call of extractUserInfo: its client is built from OLLAMA_CONFIG.
ExtractionCall(text) ==
    InvokeCall("extract", ChatOllama(OLLAMA_CONFIG), Messages(ExtractPrompt, text))

\* The consumer pulls after the extraction marker: extractUserInfo runs, the
\* result is built and its tool_call event is yielded.
ExecExtract(reply) ==
    LET result == ExtractResult(extractUserInfo(reply))
    IN /\ outcome = "running" /\ pc = "atMarker"
       /\ Honored.name = "extractUserInfo"
       /\ toolResult' = result
       /\ trace' = trace \o ToolRun("extractUserInfo",
                                    <<ExtractionCall(Honored.args.content)>>, result)
       /\ pc' = "atToolCall"
       /\ UNCHANGED <<configVars, paramVars, chunks, fullText, toolCalls, outcome, ret,
                      nFragments>>

\* Variant of FormatAndYield: the formatted content is never yielded.
FormatAndYield_NoContent ==
    /\ outcome = "running" /\ pc = "atToolCall"
    /\ pc' = "atFinalYield"
    /\ UNCHANGED <<configVars, paramVars, chunks, fullText, toolCalls, toolResult,
                   nFragments, outcome, ret, trace>>

\* The consumer pulls after the tool_call event: the result is formatted and
\* yielded as content; a TypeError of the template goes to the catch block.
FormatAndYield ==
    LET formatted == FormatToolResult(toolResult)
    IN /\ outcome = "running" /\ pc = "atToolCall"
       /\ IF formatted.threw
          THEN Raise(trace)
          ELSE /\ trace' = Append(trace, Yield(Content(formatted.text)))
               /\ pc' = "atFinalYield"
               /\ UNCHANGED <<outcome, ret>>
       /\ UNCHANGED <<configVars, paramVars, chunks, fullText, toolCalls, toolResult,
                      nFragments>>

\* return { toolCall: toolResult }
ReturnToolCall ==
    /\ outcome = "running" /\ pc = "atFinalYield"
    /\ Finish("returned", [toolCall |-> toolResult], trace)
    /\ UNCHANGED <<configVars, paramVars, chunks, fullText, toolCalls, toolResult, nFragments>>

\* The consumer pulls after the content event of the catch block: return {}.
CatchReturn ==
    /\ outcome = "running" /\ pc = "atCatchYield"
    /\ Finish("returned", EmptyObject, trace)
    /\ UNCHANGED <<configVars, paramVars, chunks, fullText, toolCalls, toolResult, nFragments>>

\* Variant of Abandon: a generator closed at a marker runs its tool before it ends.
Abandon_AfterTool ==
    /\ outcome = "running"
    /\ pc \in {"atYield", "atMarker", "atToolCall", "atFinalYield", "atCatchYield"}
    /\ Finish("abandoned", Undefined,
              IF pc = "atMarker"
              THEN trace \o <<ToolStart(Honored.name), ToolEnd(Honored.name)>>
              ELSE trace)
    /\ UNCHANGED <<configVars, paramVars, chunks, fullText, toolCalls, toolResult, nFragments>>

\* The consumer closes a generator that is suspended at a yield.
Abandon ==
    /\ outcome = "running"
    /\ pc \in {"atYield", "atMarker", "atToolCall", "atFinalYield", "atCatchYield"}
    /\ Finish("abandoned", Undefined, trace)
    /\ UNCHANGED <<configVars, paramVars, chunks, fullText, toolCalls, toolResult, nFragments>>

\* ------------------------------------------------------ executeAgentStream
\* executeAgentStream(content), up to the stream call.
executeAgentStream_Start(c) ==
    LET msgs == Messages(AgentPrompt, c)
    IN /\ StartTurn("executeAgentStream", c, "", msgs, InstanceAfterGet,
                    StreamCall(InstanceAfterGet, msgs))
       /\ ollamaInstance' = InstanceAfterGet
       /\ pc' = "awaitStream"

\* Variant of executeAgentStream_Parse: a failure to parse or validate is rethrown.
executeAgentStream_Parse_Rethrows ==
    LET validatedUser == ParseUser(fullText)
    IN /\ outcome = "running" /\ pc = "iterate"
       /\ kind = "executeAgentStream"
       /\ IF IsNull(validatedUser)
          THEN Finish("thrown", [error |-> AgentFailedText], Append(trace, Drained))
          ELSE Finish("returned", [result |-> validatedUser, content |-> AgentSuccessText],
                      Append(trace, Drained))
       /\ UNCHANGED <<configVars, paramVars, chunks, fullText, toolCalls, toolResult,
                      nFragments>>

\* The stream is exhausted: fullText is parsed and validated.
executeAgentStream_Parse ==
    LET validatedUser == ParseUser(fullText)
    IN /\ outcome = "running" /\ pc = "iterate"
       /\ kind = "executeAgentStream"
       /\ IF IsNull(validatedUser)
          THEN Finish("returned", [result |-> Null, content |-> AgentFailedText],
                      Append(trace, Drained))
          ELSE Finish("returned", [result |-> validatedUser, content |-> AgentSuccessText],
                      Append(trace, Drained))
       /\ UNCHANGED <<configVars, paramVars, chunks, fullText, toolCalls, toolResult,
                      nFragments>>

\* ---------------------------------------------- detectAndCallTool, smartChat
\* text.toUpperCase(), on the letters of the ASCII alphabet
toUpperCase(text) ==
    LET lower == <<"a", "b", "c", "d", "e", "f", "g", "h", "i", "j", "k", "l", "m",
                   "n", "o", "p", "q", "r", "s", "t", "u", "v", "w", "x", "y", "z">>
        upper == <<"A", "B", "C", "D", "E", "F", "G", "H", "I", "J", "K", "L", "M",
                   "N", "O", "P", "Q", "R", "S", "T", "U", "V", "W", "X", "Y", "Z">>
        UpperChar(ch) ==
            IF \E i \in DOMAIN lower : lower[i] = ch
            THEN upper[CHOOSE i \in DOMAIN lower : lower[i] = ch] ELSE ch
    IN Join([i \in 1..Len(text) |-> UpperChar(SubSeq(text, i, i))], "")

\* text.includes(part)
Includes(text, part) == Occurrences(text, part) # {}

\* What the classifier may answer, and what the city call may answer.
ClassifierReplies == {"WEATHER", "extract_user", "NONE", "It is not WEATHER"}
CityReplies == {"Beijing", "101010100"}
ChatReplies == {"Hi there"}

Replied(text) == [k |-> "reply", text |-> text]

ClassifierCall(c) ==
    InvokeCall("classifier", ChatOllama(OLLAMA_CONFIG), Messages(ClassifierPrompt, c))
\* cityMessages: the system line and the cityPrompt built around the content.
CityQuestion(c) == "Extract the city name from the input, return it only: " \o c
CityCall == InvokeCall("city", ollama, Messages(CityPrompt, CityQuestion(content)))
\* sendMessage: the cached client, the system prompt only when one is given.
ChatCall == InvokeCall("chat", InstanceAfterGet, Messages(systemPrompt, content))

\* smartChat(content, systemPrompt) enters detectAndCallTool, up to the classifier call.
smartChat_Start(c, sp) ==
    /\ StartTurn("smartChat", c, sp, Messages(ClassifierPrompt, c), ChatOllama(OLLAMA_CONFIG),
                 ClassifierCall(c))
    /\ UNCHANGED ollamaInstance
    /\ pc' = "awaitClassify"

\* detectAndCallTool returned null: smartChat calls sendMessage.
PlainChat(history) ==
    /\ trace' = Append(history, ChatCall)
    /\ ollamaInstance' = InstanceAfterGet
    /\ pc' = "awaitChat"
    /\ UNCHANGED <<currentConfig, outcome, ret>>

\* The classifier call rejects: caught, detectAndCallTool returns null.
ClassifyRejects ==
    /\ outcome = "running" /\ pc = "awaitClassify"
    /\ PlainChat(trace)
    /\ UNCHANGED <<paramVars, chunks, fullText, toolCalls, toolResult, nFragments>>

\* The classifier answers: WEATHER asks for the city, EXTRACT_USER starts the
\* extraction, anything else returns null.
ClassifyReturns(text) ==
    LET responseText == toUpperCase(text)
    IN /\ outcome = "running" /\ pc = "awaitClassify"
       /\ IF Includes(responseText, "WEATHER")
          THEN /\ trace' = trace \o <<Replied(text), CityCall>>
               /\ pc' = "awaitCity"
               /\ UNCHANGED <<configVars, outcome, ret>>
          ELSE IF Includes(responseText, "EXTRACT_USER")
          THEN /\ trace' = trace \o <<Replied(text), ToolStart("extractUserInfo"),
                                      ExtractionCall(content)>>
               /\ pc' = "awaitExtract"
               /\ UNCHANGED <<configVars, outcome, ret>>
          ELSE PlainChat(Append(trace, Replied(text)))
       /\ UNCHANGED <<paramVars, chunks, fullText, toolCalls, toolResult, nFragments>>

\* The city call rejects: caught, detectAndCallTool returns null.
CityRejects ==
    /\ outcome = "running" /\ pc = "awaitCity"
    /\ PlainChat(trace)
    /\ UNCHANGED <<paramVars, chunks, fullText, toolCalls, toolResult, nFragments>>

\* Variant of ReturnFormatted: a failed tool result is not reported.
ReturnFormatted_DropsFailure(result, history) ==
    LET formatted == FormatToolResult(result)
    IN IF formatted.threw
       THEN Finish("thrown", [error |-> "TypeError"], history)
       ELSE IF ~result.success
       THEN Finish("returned", [content |-> ToolCallFailedText], history)
       ELSE Finish("returned", [content |-> formatted.text, toolCall |-> result], history)

\* What smartChat returns for a tool result: the formatted content with the
\* result, or the TypeError of the template, which nothing catches.
ReturnFormatted(result, history) ==
    LET formatted == FormatToolResult(result)
    IN IF formatted.threw
       THEN Finish("thrown", [error |-> "TypeError"], history)
       ELSE Finish("returned", [content |-> formatted.text, toolCall |-> result], history)

\* The city call answers: the weather tool runs and smartChat returns its result.
smartChat_Weather(cityName, geo, wx) ==
    LET result == WeatherResult(getWeatherByCity(cityName, geo, wx))
    IN /\ outcome = "running" /\ pc = "awaitCity"
       /\ toolResult' = result
       /\ ReturnFormatted(result,
              trace \o <<Replied(cityName), ToolStart("getWeather")>>
              \o RequestEntries(WeatherRequests(cityName, geo)) \o <<ToolEnd("getWeather")>>)
       /\ UNCHANGED <<configVars, paramVars, chunks, fullText, toolCalls, nFragments>>

\* The nested call of extractUserInfo ends: smartChat returns its result.
smartChat_Extract(reply) ==
    LET result == ExtractResult(extractUserInfo(reply))
    IN /\ outcome = "running" /\ pc = "awaitExtract"
       /\ toolResult' = result
       /\ ReturnFormatted(result, Append(trace, ToolEnd("extractUserInfo")))
       /\ UNCHANGED <<configVars, paramVars, chunks, fullText, toolCalls, nFragments>>

\* sendMessage: ollama.invoke rejects, and so does smartChat.
ChatRejects ==
    /\ outcome = "running" /\ pc = "awaitChat"
    /\ Finish("thrown", [error |-> "invoke failed"], trace)
    /\ UNCHANGED <<configVars, paramVars, chunks, fullText, toolCalls, toolResult, nFragments>>

\* sendMessage: ollama.invoke answers, smartChat returns the plain reply.
ChatReturns(text) ==
    /\ outcome = "running" /\ pc = "awaitChat"
    /\ Finish("returned", [content |-> getContentAsString(StrContent(text))], trace)
    /\ UNCHANGED <<configVars, paramVars, chunks, fullText, toolCalls, toolResult, nFragments>>


Next ==
    \/ \E config \in Configs : updateOllamaConfig(config)
    \/ \E in \in Inputs : chatStream_Start(in.content, in.systemPrompt)
    \/ \E in \in Inputs : smartChatStream_Start(in.content, in.systemPrompt)
    \/ \E in \in Inputs : executeAgentStream_Start(in.content)
    \/ StreamRejects
    \/ StreamOpens
    \/ \E fragment \in StreamFragments : NextFragment(fragment)
    \/ NextChunk
    \/ IterationRaises
    \/ chatStream_Done
    \/ smartChatStream_Invoke
    \/ InvokeRejects
    \/ \E calls \in ToolCallLists : InvokeReturns(calls)
    \/ \E geo \in GeoResponses, wx \in WxResponses : ExecWeather(geo, wx)
    \/ \E reply \in ExtractReplies : ExecExtract(reply)
    \/ FormatAndYield
    \/ ReturnToolCall
    \/ CatchReturn
    \/ Abandon
    \/ executeAgentStream_Parse
    \/ \E in \in Inputs : smartChat_Start(in.content, in.systemPrompt)
    \/ ClassifyRejects
    \/ \E text \in ClassifierReplies : ClassifyReturns(text)
    \/ CityRejects
    \/ \E cityName \in CityReplies, geo \in GeoResponses, wx \in WxResponses :
          smartChat_Weather(cityName, geo, wx)
    \/ \E reply \in ExtractReplies : smartChat_Extract(reply)
    \/ ChatRejects
    \/ \E text \in ChatReplies : ChatReturns(text)

Spec == Init /\ [][Next]_vars

\* ------------------------------------------------------ the decoder alone
\* The fragments parseStreamChunk is applied to: a string payload (empty,
\* plain or truncated text, and the JSON texts), an array of up to MaxParts
\* parts, an undefined or null payload; additional_kwargs undefined, without
\* reasoning_content, or with it. No concatenation of the parts is a JSON text
\* other than the envelope alone.
DecoderFragments ==
    LET texts == {"", PlainText, "Hi there", "{\"message\":", EnvelopeTC, EnvelopeC,
                  NoMessageText, NumberText, NullText, StringText, UserNameOnlyText, "true"}
        items == {StrItem("he"), TextItem("llo"), OtherItem, TextItem(EnvelopeTC)}
        arrays == UNION {[1..n -> items] : n \in 0..MaxParts}
        contents == {StrContent(t) : t \in texts} \cup {ArrContent(a) : a \in arrays}
                    \cup {NoContent, [t |-> "null"]}
    IN {Fragment(c, kw) : c \in contents, kw \in {NoKwargs, Kwargs(""), Kwargs("R")}}

\* A call of parseStreamChunk on one fragment, about to run.
DecoderInit ==
    /\ currentConfig = OLLAMA_CONFIG
    /\ ollamaInstance = NoInstance
    /\ kind = "parseStreamChunk"
    /\ pc = "call"
    /\ content = ""
    /\ systemPrompt = ""
    /\ messages = Messages("", "")
    /\ ollama = NoInstance
    /\ chunks = <<>>
    /\ fullText = ""
    /\ toolCalls = <<>>
    /\ toolResult = Null
    /\ outcome = "running"
    /\ ret = Undefined
    /\ nFragments = 0
    /\ \E fragment \in DecoderFragments : trace = <<Arrived(fragment)>>
    /\ cfgAtStart = OLLAMA_CONFIG

\* parseStreamChunk(chunk) runs: it returns its results, or raises.
Decode ==
    /\ kind = "parseStreamChunk" /\ pc = "call"
    /\ pc' = "done"
    /\ outcome' = IF Raised(trace[1].fragment) THEN "thrown" ELSE "returned"
    /\ chunks' = IF Raised(trace[1].fragment) THEN <<>>
                 ELSE parseStreamChunk(trace[1].fragment)
    /\ UNCHANGED <<configVars, paramVars, fullText, toolCalls, toolResult, ret, nFragments,
                   trace>>

DecoderSpec == DecoderInit /\ [][Decode]_vars

\* ------------------------------------------------- the two tools in isolation
\* One run of a tool on its input: getWeatherByCity on a location with the
\* responses the two endpoints would give, or extractUserInfo on a text with
\* the reply the nested model call would give. The run is followed by the
\* ToolCallResult the orchestrators build from what the tool returned.
ToolInit ==
    /\ currentConfig = OLLAMA_CONFIG
    /\ ollamaInstance = NoInstance
    /\ pc = "call"
    /\ systemPrompt = ""
    /\ messages = Messages("", "")
    /\ ollama = NoInstance
    /\ chunks = <<>>
    /\ fullText = ""
    /\ toolCalls = <<>>
    /\ toolResult = Null
    /\ outcome = "running"
    /\ ret = Undefined
    /\ nFragments = 0
    /\ cfgAtStart = OLLAMA_CONFIG
    /\ LET \* besides the responses of the turns: a lookup that matches nothing
           \* under code 200, and an error code on a body that has its now member
           geos == GeoResponses \cup {[GeoNoMatch EXCEPT !.code = "200"]}
           wxs == WxResponses \cup {[WxOk("25") EXCEPT !.code = "204"]}
           \* besides the replies of the turns: a JSON number, a fenced block
           \* after braces, a fence without its json tag, an empty fenced block
           replies ==
               ExtractReplies
               \cup {Reply(NumberText),
                     Reply("{note} " \o Fence \o "json\n" \o UserNoHobbiesText \o "\n" \o Fence),
                     Reply(Fence \o "\n" \o UserFullText \o "\n" \o Fence),
                     Reply(Fence \o "json" \o Fence)}
       IN \/ /\ kind = "getWeatherByCity"
             /\ content \in CityReplies
             /\ \E geo \in geos, wx \in wxs :
                   trace = <<[k |-> "responses", geo |-> geo, wx |-> wx]>>
          \/ /\ kind = "extractUserInfo"
             /\ content = ExtractCall.args.content
             /\ \E reply \in replies : trace = <<[k |-> "modelReply", reply |-> reply]>>

\* getWeatherByCity({ location }) runs to its return; nothing it raises escapes.
getWeatherByCity_Run ==
    LET geo == trace[1].geo
        wx == trace[1].wx
        weatherData == getWeatherByCity(content, geo, wx)
    IN /\ kind = "getWeatherByCity" /\ pc = "call"
       /\ pc' = "done"
       /\ outcome' = "returned"
       /\ ret' = weatherData
       /\ toolResult' = WeatherResult(weatherData)
       /\ trace' = trace \o RequestEntries(WeatherRequests(content, geo))
       /\ UNCHANGED <<configVars, paramVars, chunks, fullText, toolCalls, nFragments>>

\* extractUserInfo({ text }) runs to its return; nothing it raises escapes.
extractUserInfo_Run ==
    LET userInfo == extractUserInfo(trace[1].reply)
    IN /\ kind = "extractUserInfo" /\ pc = "call"
       /\ pc' = "done"
       /\ outcome' = "returned"
       /\ ret' = userInfo
       /\ toolResult' = ExtractResult(userInfo)
       /\ trace' = Append(trace, ExtractionCall(content))
       /\ UNCHANGED <<configVars, paramVars, chunks, fullText, toolCalls, nFragments>>

ToolSpec == ToolInit /\ [][getWeatherByCity_Run \/ extractUserInfo_Run]_vars

\* ================================================================== claims
IsToolCallYield(e) == e.k = "yield" /\ e.chunk.type = "tool_call"
IsContentYield(e) == e.k = "yield" /\ e.chunk.type = "content"
IsModelCall(e) == e.k \in {"stream", "invoke"}
ToolCallEvents == SelectSeq(Events, LAMBDA e : e.chunk.type = "tool_call")
ToolStarts == SelectSeq(trace, LAMBDA e : e.k = "toolStart")
ToolNames == {"getWeather", "extractUserInfo"}
Smart == kind = "smartChatStream"

\* C1: in a turn of smartChatStream a tool_call event is the last event or the
\* last but one; when it is the last but one the last event is a content
\* event; and once the turn has returned, every tool_call event is followed
\* by exactly one event, a content event, which ends the turn's events.
C1_ToolCallThenOneContent ==
    Smart =>
        \A i \in 1..Len(Events) :
            Events[i].chunk.type = "tool_call" =>
                /\ i >= Len(Events) - 1
                /\ i = Len(Events) - 1 => Events[Len(Events)].chunk.type = "content"
                /\ outcome = "returned" => i = Len(Events) - 1

\* C1 witness: a returned turn whose events end tool_call, content.
C1_Witness ==
    /\ Smart /\ outcome = "returned"
    /\ Len(Events) >= 2
    /\ Events[Len(Events) - 1].chunk.type = "tool_call"
    /\ Events[Len(Events)].chunk.type = "content"

\* C2 (as claimed): once the stream call or the iteration has raised, the
\* turn of any of the three generators does not return normally and yields
\* no further event.
C2_TransportFailureEndsTurnWithError ==
    \A i \in 1..Len(trace) :
        trace[i].k = "transportFailed" =>
            /\ outcome # "returned"
            /\ \A j \in (i + 1)..Len(trace) : trace[j].k # "yield"

\* C3 (as claimed): the tool smartChatStream runs, and the tool_call event it
\* emits, are those of tool_calls[0].
C3_OnlyFirstElementHonored ==
    Smart =>
        /\ Len(ToolStarts) <= 1 /\ Len(ToolCallEvents) <= 1
        /\ \A i \in 1..Len(ToolStarts) : ToolStarts[i].toolName = toolCalls[1].name
        /\ \A i \in 1..Len(ToolCallEvents) :
               ToolCallEvents[i].chunk.toolCall.toolName = toolCalls[1].name

\* The first element of tool_calls that names one of the two tools, stated
\* without the loop: every element before it names something else.
IsFirstRecognized(i) ==
    /\ i \in 1..Len(toolCalls)
    /\ toolCalls[i].name \in ToolNames
    /\ \A j \in 1..(i - 1) : toolCalls[j].name \notin ToolNames

\* C3 (amended): at most one tool runs and at most one tool_call event is
\* emitted per turn; the tool is the one named by the first element of
\* tool_calls that names getWeather or extractUserInfo; elements naming
\* something else before it are skipped, every later element is ignored; the
\* turn never throws, and a turn that returns a toolCall emitted no error text.
C3_FirstRecognizedHonored ==
    Smart =>
        /\ Len(ToolStarts) <= 1 /\ Len(ToolCallEvents) <= 1
        /\ \A i \in 1..Len(ToolStarts) :
               \E n \in 1..Len(toolCalls) :
                   IsFirstRecognized(n) /\ ToolStarts[i].toolName = toolCalls[n].name
        /\ \A i \in 1..Len(ToolCallEvents) :
               \E n \in 1..Len(toolCalls) :
                   /\ IsFirstRecognized(n)
                   /\ ToolCallEvents[i].chunk.toolCall.toolName = toolCalls[n].name
        /\ outcome # "thrown"
        /\ (outcome = "returned" /\ "toolCall" \in DOMAIN ret) =>
               \A i \in 1..Len(Events) : Events[i].chunk.content # ToolErrorText
        /\ (\A n \in 1..Len(toolCalls) : ~IsFirstRecognized(n)) =>
               Len(ToolStarts) = 0 /\ Len(ToolCallEvents) = 0

\* C3 witness: tool_calls[0] names no tool, a later element does, and its
\* tool ran and the turn returned its result.
C3_Witness ==
    /\ Smart /\ outcome = "returned"
    /\ Len(toolCalls) >= 2
    /\ toolCalls[1].name \notin ToolNames
    /\ Len(ToolStarts) = 1 /\ Len(ToolCallEvents) = 1
    /\ "toolCall" \in DOMAIN ret


\* The decoder's output for the fragments that arrived before position i, in
\* arrival order, and the chunks yielded before position i.
RECURSIVE DecodedBefore(_)
DecodedBefore(i) ==
    IF i <= 1 THEN <<>>
    ELSE DecodedBefore(i - 1)
         \o (IF trace[i - 1].k = "fragment" THEN parseStreamChunk(trace[i - 1].fragment)
             ELSE <<>>)
RECURSIVE YieldedBefore(_)
YieldedBefore(i) ==
    IF i <= 1 THEN <<>>
    ELSE YieldedBefore(i - 1)
         \o (IF trace[i - 1].k = "yield" THEN <<trace[i - 1].chunk>> ELSE <<>>)

IsToolDetection(e) == e.k = "invoke" /\ e.by = "tools"

\* C4: in smartChatStream the tool-detection invoke comes after the stream
\* call and after the stream is drained (every event decoded from a fragment
\* that arrived has been yielded, none is pending), it carries the message
\* list of the stream call, and after it no fragment arrives and no event
\* decoded from the stream is yielded.
C4_InvokeAfterDrainSameMessages ==
    Smart =>
        \A i \in 1..Len(trace) :
            IsToolDetection(trace[i]) =>
                LET decoded == DecodedBefore(i)
                    fromStream == {decoded[n] : n \in 1..Len(decoded)}
                IN /\ trace[1].k = "stream"
                   /\ trace[1].messages = trace[i].messages
                   /\ trace[i].messages =
                          Messages(OrDefault(systemPrompt, SmartDefaultPrompt), content)
                   /\ \A j \in 1..Len(trace) : trace[j].k = "stream" => j = 1
                   /\ chunks = <<>>
                   /\ YieldedBefore(i) = decoded
                   /\ \A j \in (i + 1)..Len(trace) :
                          /\ trace[j].k \notin {"fragment", "stream"}
                          /\ trace[j].k = "yield" =>
                                 /\ trace[j].chunk.type # "thinking"
                                 /\ trace[j].chunk \notin fromStream

\* C4 witness: the invoke was issued with a caller-given system prompt after
\* a stream that delivered two fragments and yielded events.
C4_Witness ==
    /\ Smart /\ systemPrompt # ""
    /\ \E i \in 1..Len(trace) :
           IsToolDetection(trace[i]) /\ Len(YieldedBefore(i)) >= 2
    /\ nFragments = 2

\* C5: in every turn of smartChatStream that runs a tool the order is
\* marker content event, tool start, tool end, tool_call event, content
\* event: a tool starts right after its marker was yielded, a tool_call event
\* is yielded right after its tool ended, and only content follows it.
C5_MarkerToolEventContentOrder ==
    Smart =>
        \A i \in 1..Len(trace) :
            /\ trace[i].k = "toolStart" =>
                   /\ i > 1
                   /\ trace[i - 1] = Yield(Content(IF trace[i].toolName = "getWeather"
                                                   THEN WeatherMarker ELSE ExtractMarker))
            /\ IsToolCallYield(trace[i]) =>
                   /\ i > 1 /\ trace[i - 1].k = "toolEnd"
                   /\ \E m, b \in 1..(i - 1) :
                          /\ m < b
                          /\ trace[m] \in {Yield(Content(WeatherMarker)),
                                           Yield(Content(ExtractMarker))}
                          /\ trace[b].k = "toolStart"
                          /\ trace[b].toolName = trace[i - 1].toolName
                          /\ trace[b].toolName = trace[i].chunk.toolCall.toolName
                          /\ \A n \in (b + 1)..(i - 2) :
                                 trace[n].k \in {"request", "invoke"}
                   /\ \A j \in (i + 1)..Len(trace) : IsContentYield(trace[j])

\* C5 witness: a tool ran and succeeded, and its rendered content was
\* yielded after its tool_call event.
C5_Witness ==
    /\ Smart /\ pc = "atFinalYield"
    /\ ~IsNull(toolResult) /\ toolResult.success
    /\ IsToolCallYield(trace[Len(trace) - 1])
    /\ IsContentYield(trace[Len(trace)])

FailedResult == ~IsNull(toolResult) /\ ~toolResult.success

\* C6: when the tool of a smartChatStream turn fails, the turn does not
\* throw; a tool_call event with success = false carrying that result was
\* yielded; the event after it is a content event whose text is exactly the
\* result's error string; and the turn returns { toolCall: that result }.
C6_FailedToolCompletesNormally ==
    (Smart /\ FailedResult) =>
        /\ outcome # "thrown"
        /\ pc # "atCatchYield"
        /\ toolResult.error \in {WeatherFailedError, ExtractFailedError}
        /\ Len(ToolCallEvents) = 1
        /\ ToolCallEvents[1].chunk = ToolCallEvent(toolResult)
        /\ ~ToolCallEvents[1].chunk.toolCall.success
        /\ (pc = "atFinalYield" \/ outcome = "returned") =>
               /\ Events[Len(Events)].chunk = Content(toolResult.error)
               /\ Events[Len(Events) - 1].chunk = ToolCallEvent(toolResult)
        /\ outcome = "returned" => ret = [toolCall |-> toolResult]

\* C6 witness: a turn whose weather lookup failed has returned.
C6_Witness ==
    /\ Smart /\ FailedResult /\ outcome = "returned"
    /\ toolResult.toolName = "getWeather"

\* C7 (as claimed): a returned smartChatStream turn carries a toolCall exactly
\* when a tool_call event was yielded, and it is the result that event carried.
C7_ReturnCarriesEmittedToolCall ==
    (Smart /\ outcome = "returned") =>
        /\ ("toolCall" \in DOMAIN ret) <=> (Len(ToolCallEvents) > 0)
        /\ ("toolCall" \in DOMAIN ret) =>
               \A i \in 1..Len(ToolCallEvents) :
                   ToolCallEvents[i].chunk.toolCall = ret.toolCall


FormattingDone ==
    /\ kind \in {"smartChat", "smartChatStream"}
    /\ ~IsNull(toolResult) /\ toolResult.success
    /\ pc \in {"atFinalYield", "atCatchYield", "done"}
    /\ outcome # "abandoned"

\* C8 (as claimed): formatting a successful tool result never fails, in
\* smartChat and in smartChatStream: the turn neither throws nor falls into
\* the catch block, and the text shows no absent field as "undefined".
C8_FormattingNeverFails ==
    FormattingDone =>
        /\ ~FormatToolResult(toolResult).threw
        /\ outcome # "thrown"
        /\ pc # "atCatchYield"
        /\ ~Includes(FormatToolResult(toolResult).text, "undefined")

\* C9 (as claimed): every model client used by a turn that started after
\* updateOllamaConfig(c), c still being the configuration, is built from c.
C9_UpdateReachesEveryClient ==
    (outcome # "none" /\ currentConfig = cfgAtStart) =>
        \A i \in 1..Len(trace) :
            IsModelCall(trace[i]) => trace[i].client = ChatOllama(currentConfig)

\* C10 (as claimed): all model calls of one turn use one and the same
\* configuration, also when updateOllamaConfig runs between two of them.
\* Stated for the turns that start under the built-in configuration, where
\* the clients built from OLLAMA_CONFIG and from currentConfig agree at the
\* start of the turn.
C10_OneConfigurationPerTurn ==
    cfgAtStart = OLLAMA_CONFIG =>
    \A i, j \in 1..Len(trace) :
        (IsModelCall(trace[i]) /\ IsModelCall(trace[j])) =>
            trace[i].client = trace[j].client


\* C11: in every reachable state the cached client is absent or was built
\* from the configuration currentConfig holds now, so getOllamaInstance()
\* returns a client of the current configuration, never of a superseded one.
C11_CachedClientIsCurrent ==
    /\ ollamaInstance \in {NoInstance, ChatOllama(currentConfig)}
    /\ InstanceAfterGet = ChatOllama(currentConfig)

\* C11 witness: a client is cached under a configuration that replaced the
\* built-in one, in a turn that started under it.
C11_Witness ==
    /\ currentConfig = SavedConfig
    /\ ollamaInstance = ChatOllama(SavedConfig)
    /\ kind = "chatStream" /\ cfgAtStart = SavedConfig

\* C12: in chatStream the events yielded, followed by those decoded and not
\* yet pulled, are at every moment the concatenation in arrival order of the
\* decoder's output for the fragments that arrived; nothing else enters the
\* history; and the generator has completed exactly when the stream was
\* exhausted, all events yielded.
C12_ChatStreamForwardsDecodedEvents ==
    kind = "chatStream" =>
        LET end == Len(trace) + 1
        IN /\ YieldedBefore(end) \o chunks = DecodedBefore(end)
           /\ \A i \in 2..Len(trace) :
                  trace[i].k \in {"fragment", "yield", "drained", "transportFailed"}
           /\ outcome = "returned" <=> trace[Len(trace)].k = "drained"
           /\ outcome = "returned" =>
                  /\ chunks = <<>>
                  /\ \A i \in 1..(Len(trace) - 1) : trace[i].k # "drained"

\* C12 witness: a completed chatStream turn whose stream delivered the
\* three-event fragment and another one.
C12_Witness ==
    /\ kind = "chatStream" /\ outcome = "returned"
    /\ nFragments = 2
    /\ Len(Events) >= 4


\* The call of parseStreamChunk has ended; its fragment and the parts of it.
Decoded == kind = "parseStreamChunk" /\ pc = "done"
Chunk == trace[1].fragment
Reasoning ==
    IF Chunk.additional_kwargs.t = "object" THEN Chunk.additional_kwargs.reasoning_content
    ELSE ""
PayloadText == getContentAsString(Chunk.content)
PayloadMessage == Member(JSONParse(PayloadText).value, "message")
NonEmptyString(v) == v.j = "string" /\ v.s # ""

\* The fragment has reasoning R in its side channel and a JSON payload whose
\* message has non-empty thinking T and content C.
HasRTC ==
    /\ Reasoning # ""
    /\ JSONParse(PayloadText).ok
    /\ PayloadMessage.j = "object"
    /\ NonEmptyString(Member(PayloadMessage, "thinking"))
    /\ NonEmptyString(Member(PayloadMessage, "content"))

\* C13: a fragment with non-empty side-channel reasoning R and a JSON payload
\* whose message has non-empty thinking T and content C decodes to exactly
\* <<Thinking(R), Thinking(T), Content(C)>>.
C13_ReasoningThinkingContent ==
    (Decoded /\ HasRTC) =>
        /\ outcome = "returned"
        /\ chunks = <<Thinking(Reasoning),
                      Thinking(Member(PayloadMessage, "thinking").s),
                      Content(Member(PayloadMessage, "content").s)>>

\* C13 witness: such a fragment, its payload a string, has been decoded.
C13_Witness ==
    /\ Decoded /\ HasRTC
    /\ Chunk.content = StrContent(EnvelopeTC)
    /\ Len(chunks) = 3

ThinkingBeforeContent ==
    \A i, j \in 1..Len(chunks) :
        (i < j /\ chunks[i].type = "content") => chunks[j].type # "thinking"

\* C14 (as claimed): the decoder returns 0, 1 or 2 events, every thinking
\* event before any content event.
C14_AtMostTwoEvents ==
    Decoded => (Len(chunks) <= 2 /\ ThinkingBeforeContent)

\* C14 (amended): the decoder returns 0 to 3 events: at most two thinking
\* events (the side channel's, then the payload's) and at most one content
\* event, every thinking event before the content event.
C14_AtMostThreeEventsThinkingFirst ==
    Decoded =>
        /\ outcome = "returned"
        /\ Len(chunks) <= 3
        /\ Len(SelectSeq(chunks, LAMBDA c : c.type = "thinking")) <= 2
        /\ Len(SelectSeq(chunks, LAMBDA c : c.type = "content")) <= 1
        /\ \A i \in 1..Len(chunks) : chunks[i].type \in {"thinking", "content"}
        /\ ThinkingBeforeContent

\* C14 witness: a fragment decoded to three events.
C14_Witness ==
    /\ Decoded
    /\ Len(chunks) = 3
    /\ chunks[1].type = "thinking" /\ chunks[3].type = "content"

\* The side channel is empty or absent and the payload is a non-empty string
\* that is not a JSON text.
PlainStringPayload ==
    /\ Reasoning = ""
    /\ Chunk.content.t = "string"
    /\ Chunk.content.s # ""
    /\ ~JSONParse(Chunk.content.s).ok

\* C15: a fragment with empty or absent reasoning whose payload is a
\* non-empty string s that is not parseable as JSON decodes to exactly
\* <<Content(s)>>, s unchanged.
C15_NonJsonStringIsContent ==
    (Decoded /\ PlainStringPayload) =>
        /\ outcome = "returned"
        /\ chunks = <<Content(Chunk.content.s)>>

\* C15 witness: a truncated JSON text without reasoning has been decoded.
C15_Witness ==
    /\ Decoded /\ PlainStringPayload
    /\ Chunk = Fragment(StrContent("{\"message\":"), NoKwargs)

\* C16: parseStreamChunk never raises, whatever the fragment's shape: it
\* returns a list, and a payload that JSON.parse rejects, or whose parsed
\* value has no members to read, is reported as literal text.
C16_DecoderNeverRaises ==
    Decoded =>
        /\ outcome = "returned"
        /\ ~Raised(Chunk)
        /\ (PayloadText # "" /\ TryPayload(PayloadText).error # "none") =>
               (chunks # <<>> /\ chunks[Len(chunks)] = Content(PayloadText))

\* C16 witness: a payload that parses to JSON null, with an additional_kwargs
\* object, has been decoded to the literal text.
C16_Witness ==
    /\ Decoded
    /\ Chunk = Fragment(StrContent(NullText), Kwargs("R"))
    /\ chunks = <<Thinking("R"), Content(NullText)>>

\* The side channel is empty or absent and the payload is empty or absent.
EmptyFragment ==
    /\ Reasoning = ""
    /\ \/ Chunk.content.t \in {"undefined", "null"}
       \/ Chunk.content.t = "string" /\ Chunk.content.s = ""
       \/ Chunk.content.t = "array" /\ Chunk.content.items = <<>>

\* C17: a fragment with empty or absent reasoning and an empty or absent
\* payload decodes to the empty list.
C17_EmptyFragmentDecodesToNothing ==
    (Decoded /\ EmptyFragment) => (outcome = "returned" /\ chunks = <<>>)

\* C17 witness: a fragment without payload and without additional_kwargs has
\* been decoded.
C17_Witness ==
    /\ Decoded /\ EmptyFragment
    /\ Chunk = Fragment(NoContent, NoKwargs)
    /\ outcome = "returned"


SmartChat == kind = "smartChat"
CallsBy(by) == SelectSeq(trace, LAMBDA e : e.k = "invoke" /\ e.by = by)
\* The classifier answered, and its answer after upper-casing.
ClassifierAnswered == SmartChat /\ Len(trace) >= 2 /\ trace[2].k = "reply"
ClassifierToken == toUpperCase(trace[2].text)

\* C18 (as claimed): a classifier response that is not exactly WEATHER,
\* EXTRACT_USER or NONE after upper-casing, and a classifier call that fails,
\* route to None: no tool runs, no city or extraction call is made, and the
\* turn goes on with the plain-chat call.
C18_MalformedClassifierRoutesToNone ==
    /\ (ClassifierAnswered /\ ClassifierToken \notin {"WEATHER", "EXTRACT_USER", "NONE"}) =>
           /\ Len(ToolStarts) = 0
           /\ Len(CallsBy("city")) = 0 /\ Len(CallsBy("extract")) = 0
           /\ Len(trace) >= 3 /\ trace[3].k = "invoke" /\ trace[3].by = "chat"
    /\ (SmartChat /\ Len(trace) >= 2 /\ trace[2].k # "reply") =>
           /\ Len(ToolStarts) = 0
           /\ trace[2].k = "invoke" /\ trace[2].by = "chat"

\* C19 (as claimed): in a finished smartChat turn, when a tool was selected
\* the turn returned exactly the rendered tool result with its toolCall, the
\* tool having run and no plain-chat call made; when none was selected the
\* turn returned the plain reply and no toolCall.
C19_ToolResultOrPlainChat ==
    (SmartChat /\ pc = "done") =>
        /\ Len(ToolStarts) > 0 =>
               /\ outcome = "returned"
               /\ ~FormatToolResult(toolResult).threw
               /\ ret = [content |-> FormatToolResult(toolResult).text,
                         toolCall |-> toolResult]
               /\ Len(CallsBy("chat")) = 0
        /\ (Len(ToolStarts) = 0 /\ outcome = "returned") =>
               /\ Len(CallsBy("chat")) = 1
               /\ DOMAIN ret = {"content"}
               /\ ret.content \in ChatReplies

Requests == SelectSeq(trace, LAMBDA e : e.k = "request")
ToolEnds == SelectSeq(trace, LAMBDA e : e.k = "toolEnd")

\* C21: nothing is retried. In a turn of smartChat or of smartChatStream a
\* tool starts at most once and ends at most once, its nested model call is
\* made at most once, its result is reported by at most one tool_call event,
\* and once the tool has ended (failed or not) no tool, request or nested
\* call follows; the geocoding request and the conditions request are each
\* issued at most once, the geocoding request first.
C21_NoToolRetry ==
    kind \in {"smartChat", "smartChatStream"} =>
        /\ Len(ToolStarts) <= 1
        /\ Len(ToolEnds) <= 1
        /\ Len(ToolCallEvents) <= 1
        /\ Len(SelectSeq(trace, LAMBDA e : e.k = "invoke" /\ e.by = "extract")) <= 1
        /\ \A i, j \in DOMAIN trace :
              (i < j /\ trace[i].k = "toolEnd") =>
                  /\ trace[j].k \notin {"toolStart", "toolEnd", "request"}
                  /\ trace[j].k = "invoke" => trace[j].by \notin {"extract", "city"}
        /\ \A i, j \in DOMAIN Requests : i < j => Requests[i].url # Requests[j].url
        /\ Len(Requests) >= 1 => Requests[1].url = "geo/v2/city/lookup"

\* A weather tool that failed at its lookup, in a finished turn: one start,
\* one request, one failed result.
C21_Witness ==
    /\ kind \in {"smartChat", "smartChatStream"} /\ pc = "done"
    /\ Len(ToolStarts) = 1 /\ Len(ToolEnds) = 1
    /\ Len(Requests) = 1
    /\ ~IsNull(toolResult) /\ ~toolResult.success

\* A ToolCallResult with exactly the members its success flag calls for.
WellFormedResult(r) ==
    /\ r.toolName \in ToolNames
    /\ r.success \in BOOLEAN
    /\ r.success => /\ "result" \in DOMAIN r /\ ~IsNull(r.result)
                    /\ "error" \notin DOMAIN r
    /\ ~r.success => /\ "error" \in DOMAIN r /\ r.error # ""
                     /\ "result" \notin DOMAIN r

\* C22: every ToolCallResult that smartChatStream or detectAndCallTool builds
\* (the one held, the one of each tool_call event, the one returned) has
\* success = true with a result and no error, or success = false with an
\* error and no result, and its toolName is getWeather or extractUserInfo,
\* the tool that ran.
C22_ToolCallResultShape ==
    kind \in {"smartChat", "smartChatStream"} =>
        /\ ~IsNull(toolResult) =>
              /\ WellFormedResult(toolResult)
              /\ Len(ToolStarts) = 1 /\ toolResult.toolName = ToolStarts[1].toolName
        /\ \A i \in DOMAIN ToolCallEvents :
              /\ WellFormedResult(ToolCallEvents[i].chunk.toolCall)
              /\ ToolCallEvents[i].chunk.toolCall = toolResult
        /\ (outcome = "returned" /\ "toolCall" \in DOMAIN ret) =>
              /\ WellFormedResult(ret.toolCall)
              /\ ret.toolCall = toolResult

\* Both shapes occur: a successful extraction reported by its tool_call
\* event, and (C22_FailedWitness) a failed weather result returned by smartChat.
C22_Witness ==
    /\ Smart /\ Len(ToolCallEvents) = 1
    /\ toolResult.success /\ toolResult.toolName = "extractUserInfo"
C22_FailedWitness ==
    /\ SmartChat /\ outcome = "returned" /\ "toolCall" \in DOMAIN ret
    /\ ~ret.toolCall.success /\ ret.toolCall.toolName = "getWeather"

\* A run of getWeatherByCity has returned; the responses it was given.
Looked == kind = "getWeatherByCity" /\ pc = "done"
Geo == trace[1].geo
Wx == trace[1].wx
\* The lookup answered, with no match in its list.
ZeroMatches == Geo.net /\ Geo.ok /\ Len(Geo.location) = 0

\* C23: a lookup that answers with zero matches makes nothing throw:
\* getWeatherByCity returns null, the conditions request is not issued, and
\* the result built from it is { toolName: getWeather, success: false, error }.
C23_ZeroMatchesIsFailedResult ==
    (Looked /\ ZeroMatches) =>
        /\ outcome = "returned"
        /\ IsNull(ret)
        /\ \A i \in DOMAIN Requests : Requests[i].url # "v7/weather/now"
        /\ toolResult.toolName = "getWeather"
        /\ ~toolResult.success
        /\ "error" \in DOMAIN toolResult /\ toolResult.error # ""

\* A city name looked up with zero matches under code 200: one request made.
C23_Witness ==
    /\ Looked /\ ZeroMatches /\ Geo.code = "200"
    /\ Len(Requests) = 1 /\ ~toolResult.success

\* The two phases of a lookup, as answered.
GeocodingOk == Geo.net /\ Geo.ok /\ Geo.code = "200" /\ Len(Geo.location) >= 1
ConditionsOk == Wx.net /\ Wx.ok /\ Wx.code = "200"

\* C24: getWeatherByCity never rejects, and it returns a record only when
\* both phases succeeded (the lookup with code 200 and a match, the
\* conditions with an ok status and code 200); whenever either did not
\* (request failed, status not ok, code not 200, body without its members)
\* it returns null. The record is that of the first match and of the body.
C24_RecordOnlyWhenBothPhasesSucceed ==
    Looked =>
        /\ outcome = "returned"
        /\ ~(GeocodingOk /\ ConditionsOk) => IsNull(ret)
        /\ (GeocodingOk /\ ConditionsOk /\ ~Wx.hasNow) => IsNull(ret)
        /\ ~IsNull(ret) =>
              /\ ret.location.id = Geo.location[1].id
              /\ ret.now.text = Wx.now.text
              /\ Requests = <<Request("geo/v2/city/lookup"), Request("v7/weather/now")>>

\* Both outcomes: a record after two good phases, and (C24_NullWitness) null
\* after a good lookup and a conditions body whose code is not 200.
C24_Witness == Looked /\ GeocodingOk /\ ConditionsOk /\ ~IsNull(ret)
C24_NullWitness ==
    Looked /\ GeocodingOk /\ Wx.ok /\ Wx.hasNow /\ Wx.code # "200" /\ IsNull(ret)

\* The members of a record that parseFloat produced.
NumericNow == {"temp", "feelsLike", "windSpeed", "humidity", "precip", "pressure", "vis"}

\* C25: a numeric field whose text does not parse to a number makes the lookup
\* report a failure: a record that getWeatherByCity returns has a number in
\* every numeric member (none is NaN), and a conditions body whose temp does
\* not parse gives null.
C25_UnparsedNumberIsFailure ==
    Looked =>
        /\ ~IsNull(ret) =>
              /\ \A f \in NumericNow : ret.now[f] # "NaN"
              /\ ret.location.lat # "NaN" /\ ret.location.lon # "NaN"
        /\ (GeocodingOk /\ ConditionsOk /\ Wx.hasNow /\ parseFloat(Wx.now.temp) = "NaN")
              => IsNull(ret)

\* A run of extractUserInfo has returned; the reply its model call was given.
Extracted == kind = "extractUserInfo" /\ pc = "done"
ModelReply == trace[1].reply
\* The text between the first fence (its json tag and one line break skipped)
\* and the next one, when the text has such a pair; otherwise the span from
\* the first opening brace to the last closing brace; otherwise the text.
FenceBodyElseBraces(text) ==
    LET fence == IndexOf(text, Fence, 1)
        afterFence == fence + Len(Fence)
        afterTag == IF SubSeq(text, afterFence, afterFence + 3) = "json"
                    THEN afterFence + 4 ELSE afterFence
        bodyStart == IF SubSeq(text, afterTag, afterTag) = "\n" THEN afterTag + 1
                     ELSE afterTag
        close == IF fence = 0 THEN 0 ELSE IndexOf(text, Fence, bodyStart)
        open == IndexOf(text, "{", 1)
        shut == LastIndexOf(text, "}", Len(text))
    IN IF close > 0 THEN SubSeq(text, bodyStart, close - 1)
       ELSE IF open > 0 /\ shut > open THEN SubSeq(text, open, shut)
       ELSE text

C26_NullWitness ==
    /\ Extracted /\ ~ModelReply.failed
    /\ JSONParse(FenceBodyElseBraces(ModelReply.text)).ok
    /\ IsNull(ret)

Agent == kind = "executeAgentStream"

\* C27: executeAgentStream never throws. It returns the fixed success message
\* with the validated user exactly when the stream was drained and the
\* accumulated text parsed and validated; in every other case (text not
\* JSON, schema failure, stream failure) it returns no result with the fixed
\* failure message; and at its return every event decoded from the fragments
\* that arrived is in the history of emitted events, in order.
C27_AgentReturnsResultOrFixedFailure ==
    Agent =>
        /\ outcome # "thrown"
        /\ outcome = "returned" =>
              LET validatedUser == ParseUser(fullText)
                  drained == trace[Len(trace)].k = "drained"
                  end == Len(trace) + 1
              IN /\ ret.content \in {AgentSuccessText, AgentFailedText}
                 /\ ret.content = AgentSuccessText <=> (drained /\ ~IsNull(validatedUser))
                 /\ ret.content = AgentSuccessText => ret.result = validatedUser
                 /\ ret.content = AgentFailedText => IsNull(ret.result)
                 /\ YieldedBefore(end) = DecodedBefore(end)

\* The stream was drained, its text did not parse, and the events yielded
\* before that are emitted. (C27_SuccessWitness: a validated user returned.)
C27_Witness ==
    /\ Agent /\ outcome = "returned"
    /\ trace[Len(trace)].k = "drained"
    /\ ret.content = AgentFailedText /\ IsNull(ret.result)
    /\ Len(Events) >= 1
C27_SuccessWitness ==
    /\ Agent /\ outcome = "returned"
    /\ ret.content = AgentSuccessText /\ ~IsNull(ret.result)

\* The turn has rendered its tool result, and the text it rendered: the last
\* event of smartChatStream, the content smartChat returns.
Rendered ==
    \/ Smart /\ ~IsNull(toolResult) /\ Len(Events) >= 1
             /\ \/ pc = "atFinalYield"
                \/ pc = "done" /\ outcome = "returned" /\ "toolCall" \in DOMAIN ret
    \/ SmartChat /\ outcome = "returned" /\ "toolCall" \in DOMAIN ret
RenderedText == IF Smart THEN Events[Len(Events)].chunk.content ELSE ret.content
\* The text of a result as a function of the result and of nothing else.
TextOfResult(r) ==
    IF ~r.success THEN r.error
    ELSE IF r.toolName = "getWeather" THEN FormatWeather(r.result)
    ELSE FormatUser(r.result)

C28_SmartChatWitness ==
    /\ Rendered /\ SmartChat /\ systemPrompt = ""
    /\ toolResult.success /\ toolResult.toolName = "getWeather"

\* The consumer closed the event stream of a smartChatStream turn.
Abandoned == Smart /\ outcome = "abandoned"
LastEntry == trace[Len(trace)]
HasEntry(k) == \E i \in DOMAIN trace : trace[i].k = k
AtMarker ==
    /\ LastEntry.k = "yield" /\ LastEntry.chunk.type = "content"
    /\ LastEntry.chunk.content \in {WeatherMarker, ExtractMarker}
    /\ HasEntry("drained")

\* C29: once the consumer abandons the event stream of smartChatStream the
\* turn does nothing more. The turn stopped at the event it had last emitted
\* and returned nothing; abandoned before the stream was drained, it made no
\* tool-detection call and ran no tool; abandoned at a marker, it never ran
\* the tool; and from then on the history of the turn does not grow (no
\* event, call or request) until another turn starts.
C29_AbandonedTurnDoesNothing ==
    /\ [](Abandoned =>
            /\ pc = "done" /\ ret = Undefined
            /\ LastEntry.k = "yield"
            /\ ~HasEntry("drained") =>
                  /\ \A i \in DOMAIN trace : ~IsToolDetection(trace[i])
                  /\ ~HasEntry("toolStart") /\ ~HasEntry("request")
                  /\ IsNull(toolResult)
            /\ AtMarker =>
                  /\ ~HasEntry("toolStart") /\ ~HasEntry("toolEnd")
                  /\ ~HasEntry("request")
                  /\ \A i \in DOMAIN trace : ~IsToolCallYield(trace[i])
                  /\ IsNull(toolResult))
    /\ [][Abandoned => (trace' = trace \/ outcome' = "running")]_vars

\* Abandoned at the marker of a recognised tool; and (C29_EarlyWitness)
\* abandoned at a streamed event, before the stream was drained.
C29_Witness == Abandoned /\ AtMarker
C29_EarlyWitness == Abandoned /\ ~HasEntry("drained") /\ Len(Events) >= 1

\* The payload is a non-empty JSON text whose value has no truthy message.
JsonWithoutMessage ==
    /\ PayloadText # ""
    /\ JSONParse(PayloadText).ok
    /\ ~Truthy(PayloadMessage)
\* What the side channel alone contributes.
FromKwargs == IF Reasoning # "" THEN <<Thinking(Reasoning)>> ELSE <<>>

Accumulated ==
    IF pc = "atYield" \/ outcome = "abandoned"
    THEN SubSeq(Events, 1, Len(Events) - 1) ELSE Events
ContentsOf(events) == Join([i \in 1..Len(events) |-> events[i].chunk.content], "")

\* C31: in executeAgentStream the text parsed for the person record is the
\* concatenation, in order, of the content of every event yielded, thinking
\* events included: fullText is that concatenation at every moment, and the
\* value returned after the stream is drained is what extraction, JSON.parse
\* and validation give on it.
C31_ParsedTextIsEveryEventsContent ==
    Agent =>
        /\ fullText = ContentsOf(Accumulated)
        /\ (outcome = "returned" /\ LastEntry.k = "drained") =>
              /\ fullText = ContentsOf(Events)
              /\ ret.result = ParseUser(ContentsOf(Events))

\* A drained stream that yielded thinking events: the text opens with the
\* reasoning, and the brace span was cut out of it.
C31_Witness ==
    /\ Agent /\ outcome = "returned" /\ LastEntry.k = "drained"
    /\ \E i \in DOMAIN Events : Events[i].chunk.type = "thinking"
    /\ SubSeq(fullText, 1, 2) = "RT"
    /\ ExtractJson(fullText) = UserNameOnlyText

\* C32: for a location text of digits only (a city ID) getWeatherByCity
\* returns null and issues neither the geocoding nor the conditions request,
\* whatever the two endpoints would have answered; the result built from it
\* is the failed getWeather result.
C32_CityIdReturnsNullWithoutRequest ==
    (Looked /\ IsAllDigits(content)) =>
        /\ outcome = "returned"
        /\ IsNull(ret)
        /\ Requests = <<>>
        /\ toolResult.toolName = "getWeather" /\ ~toolResult.success

\* The city ID of Beijing, with endpoints that would both have answered well.
C32_Witness ==
    /\ Looked /\ content = "101010100"
    /\ GeocodingOk /\ ConditionsOk /\ Wx.hasNow
    /\ IsNull(ret) /\ Requests = <<>>

====
